---- MODULE Spec2Model ----
(***************************************************************************)
(* Klondike solitaire move-search engines.                                 *)
(*                                                                         *)
(*   KS_*    class KlondikeSolver          (solver worker)                 *)
(*   AW_*    class SolitaireAIWorker       (AI worker, current version)    *)
(*   AWjs_*  class SolitaireAIWorker       (ai-worker.js, where it differs *)
(*                                          from the current version)      *)
(*                                                                         *)
(* A card is a record [suit, value, faceUp]; the card id of the source is  *)
(* suit-rank, i.e. the pair (suit, value).  Suits are written "S", "H",    *)
(* "D", "C" for the spade, heart, diamond and club glyphs.  Piles are      *)
(* sequences whose last element is the top card (Array push/pop).  The     *)
(* tableau is a function on the column indices 0..6 of the source.         *)
(***************************************************************************)
EXTENDS Integers, Sequences, FiniteSets, TLC

VARIABLES
    engine,     \* which engine serves the requests of this behaviour
    gs,         \* the game state held by the caller
    prev,       \* the state the last applied move was applied to
    lastMove,   \* the last applied move
    nmoves,     \* number of moves applied
    analysis,   \* result of the last analyzePosition request
    maxDepth,   \* depth bound of the running search request, -1 before it
    stack,      \* the active calls of search / searchWinningPath
    call,       \* the recursive call about to be entered
    visited,    \* KlondikeSolver.visitedStates
    timedOut,   \* Date.now() - startTime > maxTime
    result,     \* what solve / findWinningPath returned
    cutOff,     \* history: a call of the request returned at its time or depth test
    parked,     \* the other request of the worker: not yet handled, suspended at
                \* a yield of its search, or answered
    twin,       \* a second line of play of the solver from the same first state
    agent       \* the OpenAIAgent: its fields, the clock, and where each of its
                \* operations stands in makeRequest

playVars == <<gs, prev, lastMove, nmoves, analysis>>

searchVars == <<maxDepth, stack, call, visited, timedOut, result, cutOff>>

vars == <<engine, gs, prev, lastMove, nmoves, analysis,
          maxDepth, stack, call, visited, timedOut, result, cutOff, parked, twin, agent>>

(***************************************************************************)
(* Cards                                                                   *)
(***************************************************************************)
Suits == {"S", "H", "D", "C"}

\* key order of the foundations object: { S, H, D, C }
SuitOrder == <<"S", "H", "D", "C">>

NumCols == 7

King == 13

DeckSize == 52

Cols == 0 .. (NumCols - 1)

Card(su, v, up) == [suit |-> su, value |-> v, faceUp |-> up]

\* the absent card of a move without a card field (a stock draw)
NoCard == [suit |-> "none", value |-> 0, faceUp |-> FALSE]

IsBlack(su) == su = "S" \/ su = "C"

Top(pile) == pile[Len(pile)]

Min(a, b) == IF a < b THEN a ELSE b

Max(a, b) == IF a > b THEN a ELSE b

RECURSIVE ConcatAll(_)
ConcatAll(ss) == IF Len(ss) = 0 THEN << >> ELSE Head(ss) \o ConcatAll(Tail(ss))

RECURSIVE SumSeq(_)
SumSeq(ns) == IF Len(ns) = 0 THEN 0 ELSE Head(ns) + SumSeq(Tail(ns))

Reverse(s) == [i \in 1 .. Len(s) |-> s[Len(s) + 1 - i]]

\* the last n elements of s, in order (Array.slice(-n) / splice(-n))
LastN(s, n) == SubSeq(s, Len(s) - n + 1, Len(s))

\* s without its last n elements
DropLastN(s, n) == SubSeq(s, 1, Len(s) - n)

\* the tableau columns as a sequence, column 0 first
TableauSeq(s) == [i \in 1 .. NumCols |-> s.tableau[i - 1]]

\* the foundation piles in key order (Object.values / Object.entries)
FoundationSeq(s) == [i \in 1 .. Len(SuitOrder) |-> s.foundations[SuitOrder[i]]]

\* every card of a state, pile after pile
AllCards(s) ==
    s.stock \o s.waste \o ConcatAll(FoundationSeq(s)) \o ConcatAll(TableauSeq(s))

CardId(c) == <<c.suit, c.value>>

(***************************************************************************)
(* Moves.  One record shape for the three engines:                         *)
(*   from     source column, or -1 for the stock / the waste               *)
(*   to       target column, or -1 when the target is no column            *)
(*   toSuit   key of the target foundation, or "none"                      *)
(*   card     move.card, or NoCard                                         *)
(*   sequenceLength  (KlondikeSolver tableau_to_tableau), else 0           *)
(*   priority        (SolitaireAIWorker), else 0                           *)
(***************************************************************************)
Move(t, f, to, ts, c, sl, p) ==
    [type |-> t, from |-> f, to |-> to, toSuit |-> ts, card |-> c,
     sequenceLength |-> sl, priority |-> p]

NoMove == Move("none", -1, -1, "none", NoCard, 0, 0)

(***************************************************************************)
(* KlondikeSolver: placement rules                                         *)
(***************************************************************************)
KS_canPlaceOnFoundation(card, foundations) ==
    LET foundationPile == foundations[card.suit]
    IN  IF Len(foundationPile) = 0
        THEN card.value = 1
        ELSE card.value = Top(foundationPile).value + 1

KS_canPlaceOnTableau(card, pile) ==
    IF Len(pile) = 0
    THEN card.value = King
    ELSE LET topCard == Top(pile)
         IN  /\ topCard.faceUp
             /\ IsBlack(card.suit) # IsBlack(topCard.suit)
             /\ card.value = topCard.value - 1

\* isGameWon with the count of a deck lacking one card
KS_isGameWon_oneShort(s) ==
    SumSeq([i \in 1 .. Len(SuitOrder) |-> Len(s.foundations[SuitOrder[i]])]) = DeckSize - 1

KS_isGameWon(s) ==
    SumSeq([i \in 1 .. Len(SuitOrder) |-> Len(s.foundations[SuitOrder[i]])]) = DeckSize

\* number of cards of the maximal face-up suffix of a column
RECURSIVE FaceUpSuffixLen(_)
FaceUpSuffixLen(pile) ==
    IF Len(pile) = 0 \/ ~Top(pile).faceUp
    THEN 0
    ELSE 1 + FaceUpSuffixLen(DropLastN(pile, 1))

\* faceUpCards of generateAllMoves: the maximal face-up suffix, bottom first
KS_faceUpCards(pile) == LastN(pile, FaceUpSuffixLen(pile))

(***************************************************************************)
(* KlondikeSolver.generateAllMoves                                         *)
(***************************************************************************)
KS_stockMoves(s) ==
    IF Len(s.stock) > 0
    THEN << Move("stock_to_waste", -1, -1, "none", NoCard, 0, 0) >>
    ELSE << >>

KS_wasteToFoundationMoves(s) ==
    IF Len(s.waste) > 0 /\ KS_canPlaceOnFoundation(Top(s.waste), s.foundations)
    THEN << Move("waste_to_foundation", -1, -1, Top(s.waste).suit, Top(s.waste), 0, 0) >>
    ELSE << >>

KS_wasteToTableauMoves(s) ==
    IF Len(s.waste) > 0
    THEN ConcatAll([i \in 1 .. NumCols |->
            IF KS_canPlaceOnTableau(Top(s.waste), s.tableau[i - 1])
            THEN << Move("waste_to_tableau", -1, i - 1, "none", Top(s.waste), 0, 0) >>
            ELSE << >>])
    ELSE << >>

KS_tableauToFoundationMoves(s) ==
    ConcatAll([i \in 1 .. NumCols |->
        LET pile == s.tableau[i - 1]
        IN  IF /\ Len(pile) > 0
               /\ Top(pile).faceUp
               /\ KS_canPlaceOnFoundation(Top(pile), s.foundations)
            THEN << Move("tableau_to_foundation", i - 1, -1, Top(pile).suit, Top(pile), 0, 0) >>
            ELSE << >>])

\* the card tested against the target column for a sequence of seqLen cards:
\* const cardToMove = faceUpCards[0]
KS_cardToMove(faceUpCards, seqLen) == faceUpCards[1]

\* the moves of one source column and one sequence length (the toCol loop)
KS_sequenceMoves(s, fromCol, seqLen, cardToMove) ==
    ConcatAll([t \in 1 .. NumCols |->
        IF fromCol # t - 1 /\ KS_canPlaceOnTableau(cardToMove, s.tableau[t - 1])
        THEN << Move("tableau_to_tableau", fromCol, t - 1, "none", cardToMove, seqLen, 0) >>
        ELSE << >>])

\* the moves of one source column (the seqLen loop)
KS_columnMoves(s, fromCol, faceUpCards) ==
    ConcatAll([seqLen \in 1 .. Len(faceUpCards) |->
        KS_sequenceMoves(s, fromCol, seqLen, KS_cardToMove(faceUpCards, seqLen))])

KS_tableauToTableauMoves(s) ==
    ConcatAll([f \in 1 .. NumCols |->
        KS_columnMoves(s, f - 1, KS_faceUpCards(s.tableau[f - 1]))])

KS_generateAllMoves(s) ==
    KS_stockMoves(s) \o KS_wasteToFoundationMoves(s) \o KS_wasteToTableauMoves(s)
        \o KS_tableauToFoundationMoves(s) \o KS_tableauToTableauMoves(s)

(***************************************************************************)
(* KlondikeSolver.getMoveScore / rankMoves                                 *)
(***************************************************************************)
IsFoundationType(t) == t = "waste_to_foundation" \/ t = "tableau_to_foundation"

\* getMoveScore with the King-to-empty-column bonus above the foundation bonus
KS_getMoveScore_kingFirst(move, s) ==
    IF /\ move.card # NoCard
       /\ move.card.value = King
       /\ move.to \in Cols
       /\ Len(s.tableau[move.to]) = 0
    THEN 3000
    ELSE IF IsFoundationType(move.type) THEN 1000 ELSE 0

\* getMoveScore: the test under which score += 500 (reveals hidden card) runs
KS_addsRevealBonus(move, s) ==
    /\ move.type = "tableau_to_foundation" \/ move.type = "tableau_to_tableau"
    /\ Len(s.tableau[move.from]) > 1
    /\ ~s.tableau[move.from][Len(s.tableau[move.from]) - 1].faceUp

\* getMoveScore with a reveal bonus above the foundation bonus
KS_getMoveScore_revealFirst(move, s) ==
    (IF IsFoundationType(move.type) THEN 1000 ELSE 0)
    + (IF (move.type = "tableau_to_foundation" \/ move.type = "tableau_to_tableau")
          /\ Len(s.tableau[move.from]) > 1
          /\ ~s.tableau[move.from][Len(s.tableau[move.from]) - 1].faceUp
       THEN 1500 ELSE 0)

KS_getMoveScore(move, s) ==
    LET foundationPart ==
            IF IsFoundationType(move.type)
            THEN 1000 + (IF move.card # NoCard THEN (14 - move.card.value) * 10 ELSE 0)
            ELSE 0
        revealPart ==
            IF move.type = "tableau_to_foundation" \/ move.type = "tableau_to_tableau"
            THEN LET fromPile == s.tableau[move.from]
                 IN  IF Len(fromPile) > 1 /\ ~fromPile[Len(fromPile) - 1].faceUp
                     THEN 500 ELSE 0
            ELSE 0
        kingPart ==
            IF /\ move.card # NoCard
               /\ move.card.value = King
               /\ move.to \in Cols
               /\ Len(s.tableau[move.to]) = 0
            THEN 300 ELSE 0
    IN  foundationPart + revealPart + kingPart

\* Array.prototype.sort with (a, b) => score(b) - score(a): descending, stable
Permute(moves, pos) ==
    [k \in 1 .. Len(moves) |-> moves[CHOOSE i \in 1 .. Len(moves) : pos[i] = k]]

\* the position of every move in the sorted list, from the tuple of scores
\* (f \o << >> is the function f as a tuple)
SortedPositions(scores) ==
    [i \in 1 .. Len(scores) |->
        1 + Cardinality({j \in 1 .. Len(scores) :
                \/ scores[j] > scores[i]
                \/ (scores[j] = scores[i] /\ j < i)})] \o << >>

SortDescending(moves, score) == Permute(moves, SortedPositions(score \o << >>)) \o << >>

KS_rankMoves(moves, s) ==
    SortDescending(moves, [i \in 1 .. Len(moves) |-> KS_getMoveScore(moves[i], s)])

(***************************************************************************)
(* KlondikeSolver.cloneGameState / applyMove / hashGameState               *)
(***************************************************************************)
\* drawMode 0 stands for an absent (undefined) drawMode field
NoDrawMode == 0

\* a clone that forgets the waste
KS_cloneGameState_noWaste(s) ==
    [tableau |-> s.tableau, foundations |-> s.foundations,
     stock |-> s.stock, waste |-> << >>, drawMode |-> NoDrawMode]

\* the clone copies tableau, foundations, stock, waste, moves and startTs only
KS_cloneGameState(s) ==
    [tableau |-> s.tableau, foundations |-> s.foundations,
     stock |-> s.stock, waste |-> s.waste, drawMode |-> NoDrawMode]

\* flip the new top card of a column face-up if it is face-down
FlipTop(pile) ==
    IF Len(pile) > 0 /\ ~Top(pile).faceUp
    THEN [pile EXCEPT ![Len(pile)].faceUp = TRUE]
    ELSE pile

\* result of applyMove: [null |-> the call returned null, state |-> newState]
KS_applyMove(s, move) ==
    LET newState == KS_cloneGameState(s)
        ok(st)   == [null |-> FALSE, state |-> st]
    IN  CASE move.type = "stock_to_waste" ->
                IF Len(newState.stock) > 0
                THEN ok([newState EXCEPT
                            !.stock = DropLastN(@, 1),
                            !.waste = Append(@, Top(newState.stock))])
                ELSE ok(newState)
          [] move.type = "waste_to_foundation" ->
                IF Len(newState.waste) > 0
                THEN IF move.toSuit \in Suits
                     THEN ok([newState EXCEPT
                                !.waste = DropLastN(@, 1),
                                !.foundations[move.toSuit] = Append(@, Top(newState.waste))])
                     ELSE [null |-> TRUE, state |-> s]
                ELSE ok(newState)
          [] move.type = "waste_to_tableau" ->
                IF Len(newState.waste) > 0
                THEN IF move.to \in Cols
                     THEN ok([newState EXCEPT
                                !.waste = DropLastN(@, 1),
                                !.tableau[move.to] = Append(@, Top(newState.waste))])
                     ELSE [null |-> TRUE, state |-> s]
                ELSE ok(newState)
          [] move.type = "tableau_to_foundation" ->
                IF move.from \notin Cols
                THEN [null |-> TRUE, state |-> s]
                ELSE LET fromPile == newState.tableau[move.from]
                     IN  IF Len(fromPile) > 0
                         THEN IF move.toSuit \in Suits
                              THEN ok([newState EXCEPT
                                    !.tableau[move.from] = FlipTop(DropLastN(fromPile, 1)),
                                    !.foundations[move.toSuit] = Append(@, Top(fromPile))])
                              ELSE [null |-> TRUE, state |-> s]
                         ELSE ok(newState)
          [] move.type = "tableau_to_tableau" ->
                IF move.from \notin Cols \/ move.to \notin Cols
                THEN [null |-> TRUE, state |-> s]
                ELSE LET sourcePile == newState.tableau[move.from]
                         seqLen     == IF move.sequenceLength = 0 THEN 1
                                       ELSE move.sequenceLength
                     IN  IF Len(sourcePile) >= seqLen
                         THEN IF move.from = move.to
                              THEN ok([newState EXCEPT
                                    !.tableau[move.from] = FlipTop(sourcePile)])
                              ELSE ok([newState EXCEPT
                                    !.tableau[move.from] = FlipTop(DropLastN(sourcePile, seqLen)),
                                    !.tableau[move.to] = @ \o LastN(sourcePile, seqLen)])
                         ELSE ok(newState)
          [] OTHER -> [null |-> TRUE, state |-> s]

\* a hash of the tableau and the foundations alone
KS_hashGameState_noStock(s) ==
    << [c \in Cols |-> [i \in 1 .. Len(s.tableau[c]) |->
            <<s.tableau[c][i].value, s.tableau[c][i].suit, s.tableau[c][i].faceUp>>]],
       [i \in 1 .. Len(SuitOrder) |-> <<SuitOrder[i], Len(s.foundations[SuitOrder[i]])>>] >>

\* the hash string, as the tuple of the parts it is formatted from
KS_hashGameState(s) ==
    << [c \in Cols |-> [i \in 1 .. Len(s.tableau[c]) |->
            <<s.tableau[c][i].value, s.tableau[c][i].suit, s.tableau[c][i].faceUp>>]],
       [i \in 1 .. Len(SuitOrder) |-> <<SuitOrder[i], Len(s.foundations[SuitOrder[i]])>>],
       IF Len(s.waste) > 0 THEN <<Top(s.waste).value, Top(s.waste).suit>>
                           ELSE <<0, "empty">>,
       Len(s.stock) >>

(***************************************************************************)
(* SolitaireAIWorker: placement rules, clone, apply (the same text in the  *)
(* current version and in ai-worker.js)                                    *)
(***************************************************************************)
\* the rule without its suit test
AW_canPlaceOnFoundation_anySuit(card, foundationPile) ==
    IF Len(foundationPile) = 0
    THEN card.value = 1
    ELSE Top(foundationPile).value = card.value - 1

AW_canPlaceOnFoundation(card, foundationPile) ==
    IF Len(foundationPile) = 0
    THEN card.value = 1
    ELSE /\ Top(foundationPile).suit = card.suit
         /\ Top(foundationPile).value = card.value - 1

AW_canPlaceOnTableau(card, tableauPile) ==
    IF Len(tableauPile) = 0
    THEN card.value = King
    ELSE LET topCard == Top(tableauPile)
         IN  /\ topCard.faceUp
             /\ IsBlack(card.suit) # IsBlack(topCard.suit)
             /\ card.value = topCard.value - 1

DefaultDrawMode == 3

\* drawMode: state.drawMode || 3
AW_cloneGameState(s) ==
    [tableau |-> s.tableau, foundations |-> s.foundations,
     stock |-> s.stock, waste |-> s.waste,
     drawMode |-> IF s.drawMode = NoDrawMode THEN DefaultDrawMode ELSE s.drawMode]

\* isGameWon with piles one card short
AW_isGameWon_queenHigh(s) == \A su \in Suits : Len(s.foundations[su]) = King - 1

AW_isGameWon(s) == \A su \in Suits : Len(s.foundations[su]) = King

\* Array.pop of an empty array yields undefined, written NoCard
PopCard(pile) == IF Len(pile) > 0 THEN Top(pile) ELSE NoCard

PopRest(pile) == IF Len(pile) > 0 THEN DropLastN(pile, 1) ELSE pile

AW_applyMoveToState(s, move) ==
    LET newState == AW_cloneGameState(s)
    IN  CASE move.type = "tableau_to_foundation" ->
                IF move.from \notin Cols \/ move.toSuit \notin Suits
                THEN s
                ELSE LET tableauPile == newState.tableau[move.from]
                     IN  [newState EXCEPT
                            !.tableau[move.from] = FlipTop(PopRest(tableauPile)),
                            !.foundations[move.toSuit] = Append(@, PopCard(tableauPile))]
          [] move.type = "waste_to_foundation" ->
                IF move.toSuit \notin Suits
                THEN s
                ELSE [newState EXCEPT
                        !.waste = PopRest(@),
                        !.foundations[move.toSuit] = Append(@, PopCard(newState.waste))]
          [] move.type = "tableau_to_tableau" ->
                IF move.from \notin Cols \/ move.to \notin Cols
                THEN s
                ELSE LET fromPile == newState.tableau[move.from]
                     IN  IF move.from = move.to
                         THEN [newState EXCEPT !.tableau[move.from] =
                                    FlipTop(Append(PopRest(fromPile), PopCard(fromPile)))]
                         ELSE [newState EXCEPT
                                !.tableau[move.from] = FlipTop(PopRest(fromPile)),
                                !.tableau[move.to] = Append(@, PopCard(fromPile))]
          [] move.type = "draw_stock" ->
                IF Len(newState.stock) > 0
                THEN LET drawCount == Min(newState.drawMode, Len(newState.stock))
                     IN  [newState EXCEPT
                            !.stock = DropLastN(@, drawCount),
                            !.waste = @ \o LastN(newState.stock, drawCount)]
                ELSE IF Len(newState.waste) > 0
                     THEN [newState EXCEPT !.stock = Reverse(newState.waste),
                                           !.waste = << >>]
                     ELSE newState
          [] OTHER -> newState

(***************************************************************************)
(* SolitaireAIWorker.generateAllPossibleMoves                              *)
(***************************************************************************)
AW_tableauToFoundationMoves(s) ==
    ConcatAll([i \in 1 .. NumCols |->
        LET pile == s.tableau[i - 1]
        IN  IF Len(pile) > 0 /\ Top(pile).faceUp
            THEN ConcatAll([k \in 1 .. Len(SuitOrder) |->
                    IF AW_canPlaceOnFoundation(Top(pile), s.foundations[SuitOrder[k]])
                    THEN << Move("tableau_to_foundation", i - 1, -1, SuitOrder[k],
                                 Top(pile), 0, 1000 + Top(pile).value) >>
                    ELSE << >>])
            ELSE << >>])

AW_wasteToFoundationMoves(s) ==
    IF Len(s.waste) > 0
    THEN ConcatAll([k \in 1 .. Len(SuitOrder) |->
            IF AW_canPlaceOnFoundation(Top(s.waste), s.foundations[SuitOrder[k]])
            THEN << Move("waste_to_foundation", -1, -1, SuitOrder[k],
                         Top(s.waste), 0, 900 + Top(s.waste).value) >>
            ELSE << >>])
    ELSE << >>

AW_tableauToTableauMoves(s) ==
    ConcatAll([i \in 1 .. NumCols |->
        LET fromPile == s.tableau[i - 1]
        IN  IF Len(fromPile) > 0 /\ Top(fromPile).faceUp
            THEN ConcatAll([j \in 1 .. NumCols |->
                    IF i # j /\ AW_canPlaceOnTableau(Top(fromPile), s.tableau[j - 1])
                    THEN << Move("tableau_to_tableau", i - 1, j - 1, "none", Top(fromPile), 0,
                                 200
                                 + (IF Len(fromPile) > 1 /\ ~fromPile[Len(fromPile) - 1].faceUp
                                    THEN 300 ELSE 0)
                                 + (IF Top(fromPile).value = King /\ Len(s.tableau[j - 1]) = 0
                                    THEN 200 ELSE 0)) >>
                    ELSE << >>])
            ELSE << >>])

AW_drawStockMoves(s) ==
    IF Len(s.stock) > 0 \/ Len(s.waste) > 0
    THEN << Move("draw_stock", -1, -1, "none", NoCard, 0, 10) >>
    ELSE << >>

AW_generateAllPossibleMoves(s) ==
    AW_tableauToFoundationMoves(s) \o AW_wasteToFoundationMoves(s)
        \o AW_tableauToTableauMoves(s) \o AW_drawStockMoves(s)

\* moves.sort((a, b) => b.priority - a.priority)
AW_rankMovesByPriority(moves, s) ==
    SortDescending(moves, [i \in 1 .. Len(moves) |-> moves[i].priority])

(***************************************************************************)
(* SolitaireAIWorker.analyzeStock and its helpers                          *)
(***************************************************************************)
AW_isCardUsefulInPosition(card, s) ==
    \/ \E su \in Suits : AW_canPlaceOnFoundation(card, s.foundations[su])
    \/ \E c \in Cols : AW_canPlaceOnTableau(card, s.tableau[c])

MaxDraws == 10

\* simulateStockDraws(state, 10), reduced to what analyzeStock reads of it:
\* the drawNumber of the first useful upcoming card, 0 when there is none
RECURSIVE AW_nextUsefulDraw(_, _, _, _)
AW_nextUsefulDraw(s, stockCopy, wasteCopy, draw) ==
    IF draw >= MaxDraws \/ (Len(stockCopy) = 0 /\ Len(wasteCopy) = 0)
    THEN 0
    ELSE LET drawMode == IF s.drawMode = NoDrawMode THEN DefaultDrawMode ELSE s.drawMode
             stock1 == IF Len(stockCopy) = 0 THEN Reverse(wasteCopy) ELSE stockCopy
             waste1 == IF Len(stockCopy) = 0 THEN << >> ELSE wasteCopy
             n      == Min(drawMode, Len(stock1))
             cardsDrawn == LastN(stock1, n)
         IN  IF AW_isCardUsefulInPosition(Top(cardsDrawn), s)
             THEN draw + 1
             ELSE AW_nextUsefulDraw(s, DropLastN(stock1, n), waste1 \o cardsDrawn, draw + 1)

\* the decision of analyzeStock once stock or waste is known to be non-empty
AW_stockAdvice(tableauMoveCount, nextUseful) ==
    IF tableauMoveCount = 0
    THEN [shouldDraw |-> TRUE, drawsNeeded |-> IF nextUseful > 0 THEN nextUseful ELSE 1]
    ELSE IF tableauMoveCount < 2 /\ nextUseful > 0 /\ nextUseful <= 3
         THEN [shouldDraw |-> TRUE, drawsNeeded |-> nextUseful]
         ELSE IF nextUseful > 0 /\ nextUseful <= 5
              THEN [shouldDraw |-> FALSE, drawsNeeded |-> nextUseful]
              ELSE [shouldDraw |-> FALSE, drawsNeeded |-> 0]

AW_countTableauMoves(s) ==
    LET fits(card, skip) ==
            Cardinality({su \in Suits : AW_canPlaceOnFoundation(card, s.foundations[su])})
            + Cardinality({c \in Cols : c # skip /\ AW_canPlaceOnTableau(card, s.tableau[c])})
    IN  SumSeq([i \in 1 .. NumCols |->
            IF Len(s.tableau[i - 1]) > 0 /\ Top(s.tableau[i - 1]).faceUp
            THEN fits(Top(s.tableau[i - 1]), i - 1) ELSE 0])
        + (IF Len(s.waste) > 0 THEN fits(Top(s.waste), -1) ELSE 0)

AW_analyzeStock(s) ==
    IF Len(s.stock) = 0 /\ Len(s.waste) = 0
    THEN [shouldDraw |-> FALSE, drawsNeeded |-> 0]
    ELSE AW_stockAdvice(AW_countTableauMoves(s), AW_nextUsefulDraw(s, s.stock, s.waste, 0))

(***************************************************************************)
(* ai-worker.js: generateAllPossibleMoves calls analyzeStock, which calls  *)
(* generateAllPossibleMoves.  depth counts the frames of that recursion;   *)
(* beyond StackLimit the engine throws RangeError, which propagates        *)
(* through both functions (neither catches).                               *)
(***************************************************************************)
StackLimit == 6

Thrown == [threw |-> TRUE, moves |-> << >>, shouldDraw |-> FALSE, drawsNeeded |-> 0]

RECURSIVE AWjs_generateAllPossibleMoves(_, _)
RECURSIVE AWjs_analyzeStock(_, _)
AWjs_generateAllPossibleMoves(s, depth) ==
    IF depth > StackLimit
    THEN Thrown
    ELSE LET base == AW_tableauToFoundationMoves(s) \o AW_wasteToFoundationMoves(s)
                        \o AW_tableauToTableauMoves(s)
         IN  IF Len(s.stock) > 0 \/ Len(s.waste) > 0
             THEN LET stockAnalysis == AWjs_analyzeStock(s, depth + 1)
                  IN  IF stockAnalysis.threw
                      THEN Thrown
                      ELSE [Thrown EXCEPT
                              !.threw = FALSE,
                              !.moves = base \o << Move("draw_stock", -1, -1, "none", NoCard, 0,
                                            IF stockAnalysis.shouldDraw THEN 15 ELSE 5) >>]
             ELSE [Thrown EXCEPT !.threw = FALSE, !.moves = base]

AWjs_analyzeStock(s, depth) ==
    IF depth > StackLimit
    THEN Thrown
    ELSE IF Len(s.stock) = 0 /\ Len(s.waste) = 0
         THEN [Thrown EXCEPT !.threw = FALSE]
         ELSE LET nextUseful     == AW_nextUsefulDraw(s, s.stock, s.waste, 0)
                  availableMoves == AWjs_generateAllPossibleMoves(s, depth + 1)
              IN  IF availableMoves.threw
                  THEN Thrown
                  ELSE LET tableauMoves == SelectSeq(availableMoves.moves,
                                LAMBDA m : m.type = "tableau_to_foundation"
                                           \/ m.type = "tableau_to_tableau")
                           advice == AW_stockAdvice(Len(tableauMoves), nextUseful)
                       IN  [Thrown EXCEPT !.threw = FALSE,
                                          !.shouldDraw = advice.shouldDraw,
                                          !.drawsNeeded = advice.drawsNeeded]

\* number of cards on the foundations
FoundationCards(s) == SumSeq([i \in 1 .. Len(SuitOrder) |-> Len(s.foundations[SuitOrder[i]])])

\* number of face-down tableau cards
HiddenCards(s) ==
    SumSeq([i \in 1 .. NumCols |->
        Cardinality({k \in 1 .. Len(s.tableau[i - 1]) : ~s.tableau[i - 1][k].faceUp})])

\* number of empty tableau columns
EmptySpaces(s) == Cardinality({c \in Cols : Len(s.tableau[c]) = 0})

\* calculateWinProbability = min(100, max(0, (f/52) * 60 + (1 - h/28) * 25
\* + (e/7) * 15)), kept exactly as the integer 364 * probability
\* (364 = lcm(52, 28, 7)): 420 f + 325 (28 - h) + 780 e
WinProbabilityScale == 364

\* the foundation term counted as a penalty: (1 - f/52) * 60
AW_calculateWinProbability_foundationPenalty(s) ==
    Min(100 * WinProbabilityScale,
        Max(0, 420 * (52 - FoundationCards(s)) + 325 * (28 - HiddenCards(s))
               + 780 * EmptySpaces(s)))

AW_calculateWinProbability(s) ==
    Min(100 * WinProbabilityScale,
        Max(0, 420 * FoundationCards(s) + 325 * (28 - HiddenCards(s))
               + 780 * EmptySpaces(s)))

(***************************************************************************)
(* SolitaireAIWorker.analyzePosition: [error, bestMove, possibleMoves,     *)
(* winProbability]                                                         *)
(* (error: the catch branch returned { error, timestamp })                 *)
(***************************************************************************)
NoAnalysis == [done |-> FALSE, error |-> FALSE, bestMove |-> NoMove, possibleMoves |-> << >>,
               shouldDraw |-> FALSE, winProbability |-> 0]

\* the returned analysis object, from the (already sorted) possibleMoves
AnalysisOf(ranked, shouldDraw, winProbability) ==
    [done |-> TRUE, error |-> FALSE,
     bestMove |-> IF Len(ranked) > 0 THEN ranked[1] ELSE NoMove,
     possibleMoves |-> ranked,
     shouldDraw |-> shouldDraw,
     winProbability |-> winProbability]

AW_analyzePosition(gameState) ==
    AnalysisOf(AW_rankMovesByPriority(
                   AW_generateAllPossibleMoves(AW_cloneGameState(gameState)),
                   AW_cloneGameState(gameState)),
               AW_analyzeStock(AW_cloneGameState(gameState)).shouldDraw,
               AW_calculateWinProbability(AW_cloneGameState(gameState)))

AWjs_analysisOf(state, possibleMoves, stockRec) ==
    IF possibleMoves.threw \/ stockRec.threw
    THEN [NoAnalysis EXCEPT !.done = TRUE, !.error = TRUE]
    ELSE AnalysisOf(AW_rankMovesByPriority(possibleMoves.moves, state), stockRec.shouldDraw,
                    AW_calculateWinProbability(state))

AWjs_analyzePosition(gameState) ==
    AWjs_analysisOf(AW_cloneGameState(gameState),
                    AWjs_generateAllPossibleMoves(AW_cloneGameState(gameState), 1),
                    AWjs_analyzeStock(AW_cloneGameState(gameState), 1))

(***************************************************************************)
(* SolitaireAIWorker: move evaluation used by searchWinningPath            *)
(***************************************************************************)
AW_revealsHiddenCard(move, s) ==
    /\ move.type = "tableau_to_foundation" \/ move.type = "tableau_to_tableau"
    /\ move.from \in Cols
    /\ Len(s.tableau[move.from]) > 1
    /\ ~s.tableau[move.from][Len(s.tableau[move.from]) - 1].faceUp

AW_isEmptySpaceMove(move, s) ==
    /\ move.type = "tableau_to_tableau" \/ move.type = "waste_to_tableau"
    /\ move.to \in Cols
    /\ Len(s.tableau[move.to]) = 0

\* getPileFromMove: the source column of a tableau move, else null (<< >>)
AW_getPileFromMove(move, s) ==
    IF (move.type = "tableau_to_foundation" \/ move.type = "tableau_to_tableau")
       /\ move.from \in Cols
    THEN s.tableau[move.from]
    ELSE << >>

Queen == 12

\* the card under the topmost card with the King's id is a face-up Queen
AW_hasGoodSequenceUnder(pile, kingCard) ==
    /\ Len(pile) >= 2
    /\ \E i \in 1 .. Len(pile) :
         /\ CardId(pile[i]) = CardId(kingCard)
         /\ \A j \in (i + 1) .. Len(pile) : CardId(pile[j]) # CardId(kingCard)
         /\ i > 1
         /\ pile[i - 1].faceUp
         /\ pile[i - 1].value = Queen

AW_extendsGoodSequence(card, targetPile) ==
    /\ Len(targetPile) > 0
    /\ Top(targetPile).faceUp
    /\ IsBlack(card.suit) # IsBlack(Top(targetPile).suit)
    /\ card.value = Top(targetPile).value - 1

AW_isCounterproductiveMove(move, s) ==
    \/ /\ move.card # NoCard
       /\ move.card.value = 1
       /\ ~IsFoundationType(move.type)
    \/ /\ move.type = "tableau_to_tableau"
       /\ move.card # NoCard
       /\ Len(s.foundations[move.card.suit]) = move.card.value - 1
    \/ /\ move.type = "waste_to_tableau"
       /\ move.card # NoCard
       /\ \E su \in Suits : AW_canPlaceOnFoundation(move.card, s.foundations[su])

AW_isGoodSequence(cards) ==
    /\ Len(cards) >= 2
    /\ \A i \in 2 .. Len(cards) :
         /\ cards[i].faceUp /\ cards[i - 1].faceUp
         /\ cards[i].value = cards[i - 1].value - 1
         /\ IsBlack(cards[i].suit) # IsBlack(cards[i - 1].suit)

GoodSequenceLen == 3

AW_breaksGoodSequence(move, s) ==
    /\ move.from \in Cols
    /\ Len(s.tableau[move.from]) >= GoodSequenceLen
    /\ AW_isGoodSequence(LastN(s.tableau[move.from], GoodSequenceLen))

AW_isProbablyBadMove(move, s) ==
    \/ move.card # NoCard /\ move.card.value = 1 /\ move.type = "tableau_to_tableau"
    \/ move.type = "tableau_to_tableau" /\ AW_breaksGoodSequence(move, s)

CountMoves(moves, Test(_)) == Cardinality({i \in 1 .. Len(moves) : Test(moves[i])})

LowCard == 4

\* strategicValue of one move of the list moves
AW_strategicValue(move, moves, s) ==
    move.priority
    + (IF IsFoundationType(move.type)
       THEN 10000
            + (IF move.card # NoCard /\ move.card.value = 1 THEN 5000
               ELSE IF move.card # NoCard /\ move.card.value <= LowCard THEN 3000 ELSE 0)
            + (IF move.card # NoCard
                  /\ Len(s.foundations[move.card.suit]) = move.card.value - 1
               THEN 2000 ELSE 0)
       ELSE 0)
    + (IF AW_revealsHiddenCard(move, s)
       THEN 1500
            + (IF Len(AW_getPileFromMove(move, s)) > 1
                  /\ AW_getPileFromMove(move, s)[Len(AW_getPileFromMove(move, s)) - 1].value
                        <= LowCard
               THEN 1000 ELSE 0)
       ELSE 0)
    + (IF move.card # NoCard /\ move.card.value = King /\ AW_isEmptySpaceMove(move, s)
       THEN 800
            + (IF AW_hasGoodSequenceUnder(AW_getPileFromMove(move, s), move.card)
               THEN 500 ELSE 0)
       ELSE 0)
    + (IF (move.type = "tableau_to_tableau" \/ move.type = "waste_to_tableau")
          /\ move.to \in Cols
          /\ AW_extendsGoodSequence(move.card, s.tableau[move.to])
       THEN 400 ELSE 0)
    - (IF AW_isCounterproductiveMove(move, s) THEN 2000 ELSE 0)
    + (IF move.type = "draw_stock"
       THEN IF CountMoves(moves, LAMBDA m : IsFoundationType(m.type)) > 0 THEN -5000
            ELSE IF CountMoves(moves, LAMBDA m : AW_revealsHiddenCard(m, s)) > 0 THEN -1000
            ELSE 50
       ELSE 0)

\* the ranked list; the strategicValue field added to each move is not read
\* by the search or by applyMoveToState and is left out of the move records
AW_rankMovesByStrategicValue(moves, s) ==
    SortDescending(moves, [i \in 1 .. Len(moves) |-> AW_strategicValue(moves[i], moves, s)])

AWjs_strategicValue(move, moves, s) ==
    move.priority
    + (IF IsFoundationType(move.type)
       THEN 1000 + (IF move.card # NoCard /\ move.card.value <= LowCard THEN 200 ELSE 0)
       ELSE 0)
    + (IF AW_revealsHiddenCard(move, s) THEN 300 ELSE 0)
    + (IF move.card # NoCard /\ move.card.value = King /\ AW_isEmptySpaceMove(move, s)
       THEN 250 ELSE 0)
    - (IF move.type = "draw_stock"
          /\ CountMoves(moves, LAMBDA m : m.type # "draw_stock") > 0
       THEN 100 ELSE 0)

AWjs_rankMovesByStrategicValue(moves, s) ==
    SortDescending(moves, [i \in 1 .. Len(moves) |-> AWjs_strategicValue(moves[i], moves, s)])

\* calculateGameProgress = max(0, f/52 - (h/28) * 0.3), kept as the integer
\* 3640 * progress = max(0, 70 f - 39 h); no reachable (f, h) falls on a
\* threshold, so the comparisons below are exact
ProgressScale == 3640

AW_calculateGameProgress(s) == Max(0, 70 * FoundationCards(s) - 39 * HiddenCards(s))

\* x / 10 on the scale of calculateGameProgress
Tenths(x) == (x * ProgressScale) \div 10

AW_calculateOptimalBranching(depthRemaining, gameProgress) ==
    IF gameProgress < Tenths(2)
    THEN (IF depthRemaining > 100 THEN 3 ELSE IF depthRemaining > 50 THEN 5 ELSE 8)
    ELSE IF gameProgress < Tenths(6)
         THEN (IF depthRemaining > 100 THEN 4 ELSE IF depthRemaining > 50 THEN 7 ELSE 10)
         ELSE (IF depthRemaining > 100 THEN 6 ELSE IF depthRemaining > 50 THEN 10 ELSE 15)

AW_shouldSkipMove(move, s, depthRemaining, gameProgress) ==
    IF IsFoundationType(move.type)
    THEN FALSE
    ELSE \/ AW_isProbablyBadMove(move, s)
         \/ AW_isCounterproductiveMove(move, s)
         \/ /\ gameProgress < Tenths(3)
            /\ move.type = "draw_stock"
            /\ \/ AW_revealsHiddenCard(move, s)
               \/ \E su \in Suits : Len(s.foundations[su]) < King

AW_calculateProgressScore(newState, oldState) ==
    (FoundationCards(newState) - FoundationCards(oldState)) * 10
    + (HiddenCards(oldState) - HiddenCards(newState)) * 5

AW_isProgressTooSlow(progressScore, depthRemaining, gameProgress) ==
    IF gameProgress < Tenths(3)
    THEN progressScore < -5 /\ depthRemaining > 75
    ELSE IF gameProgress < Tenths(7)
         THEN progressScore < -10 /\ depthRemaining > 50
         ELSE progressScore < -20 /\ depthRemaining > 25

Take(s, n) == SubSeq(s, 1, Min(n, Len(s)))

\* movesToTry of searchWinningPath: the ranked moves cut at maxBranches, with
\* the foundation moves put first when there are any
AW_movesToTry(rankedMoves, maxBranches) ==
    IF CountMoves(rankedMoves, LAMBDA m : IsFoundationType(m.type)) > 0
    THEN Take(SelectSeq(rankedMoves, LAMBDA m : IsFoundationType(m.type))
              \o SelectSeq(rankedMoves, LAMBDA m : ~IsFoundationType(m.type)), maxBranches)
    ELSE Take(rankedMoves, maxBranches)

\* ai-worker.js: const maxBranches = depthRemaining > 100 ? 5 : depthRemaining > 50 ? 8 : 12
AWjs_maxBranches(depthRemaining) ==
    IF depthRemaining > 100 THEN 5 ELSE IF depthRemaining > 50 THEN 8 ELSE 12

\* ai-worker.js: the two tests that skip a candidate move
AWjs_skipsBadMove(move, s, depthRemaining) ==
    depthRemaining > 75 /\ AW_isProbablyBadMove(move, s)

AWjs_skipsSlowMove(progressScore, depthRemaining) ==
    progressScore < -10 /\ depthRemaining > 50

(***************************************************************************)
(* Input states.  Every one holds the 52 cards of createDeck once; stock   *)
(* cards are face-down, waste and foundation cards face-up, and a tableau  *)
(* column is a face-down prefix under a face-up run.                       *)
(***************************************************************************)
Up(su, v) == Card(su, v, TRUE)

Down(su, v) == Card(su, v, FALSE)

\* createDeck: suit by suit, Ace to King, face-down
FullDeck ==
    [i \in 1 .. DeckSize |-> Down(SuitOrder[((i - 1) \div King) + 1], ((i - 1) % King) + 1)]

Without(deck, ids) == SelectSeq(deck, LAMBDA c : CardId(c) \notin ids)

EmptyTableau == [c \in Cols |-> << >>]

\* foundations holding Ace..h[su] of every suit su
FoundationsUpTo(h) == [su \in Suits |-> [i \in 1 .. h[su] |-> Up(su, i)]]

GameState(tab, fnd, stock, waste, dm) ==
    [tableau |-> tab, foundations |-> fnd, stock |-> stock, waste |-> waste, drawMode |-> dm]

\* a deal as dealCards lays it out: column c holds c face-down cards under one
\* face-up card, the other 24 cards are the stock
DealTops == << Up("S", 1), Up("S", 11), Up("H", 12), Up("C", 13),
               Up("S", 2), Up("D", 10), Up("C", 5) >>

DealStockTop == Down("H", 1)

DealRest ==
    Without(FullDeck, {CardId(DealTops[i]) : i \in 1 .. NumCols} \cup {CardId(DealStockTop)})

\* number of face-down tableau cards of a deal: 0 + 1 + ... + 6
DealHidden == (NumCols * (NumCols - 1)) \div 2

DealState(dm) ==
    GameState(
        [c \in Cols |-> SubSeq(DealRest, (c * (c - 1)) \div 2 + 1, (c * (c + 1)) \div 2)
                            \o << DealTops[c + 1] >>],
        FoundationsUpTo([su \in Suits |-> 0]),
        SubSeq(DealRest, DealHidden + 1, Len(DealRest)) \o << DealStockTop >>,
        << >>, dm)

\* a deal whose seven top cards are black and hold no Ace: no tableau card
\* can be moved and the only generated move is the stock draw; the top card
\* of the stock, the four of hearts, fits the black fives
BlockedTops == << Up("S", 3), Up("S", 5), Up("S", 7), Up("S", 9),
                  Up("S", 11), Up("C", 3), Up("C", 5) >>

BlockedStockTop == Down("H", 4)

BlockedRest ==
    Without(FullDeck, {CardId(BlockedTops[i]) : i \in 1 .. NumCols}
                          \cup {CardId(BlockedStockTop)})

BlockedDealState(dm) ==
    GameState(
        [c \in Cols |-> SubSeq(BlockedRest, (c * (c - 1)) \div 2 + 1, (c * (c + 1)) \div 2)
                            \o << BlockedTops[c + 1] >>],
        FoundationsUpTo([su \in Suits |-> 0]),
        SubSeq(BlockedRest, DealHidden + 1, Len(BlockedRest)) \o << BlockedStockTop >>,
        << >>, dm)

\* a late position with a short stock and a waste card
LateState(dm) ==
    GameState(
        [EmptyTableau EXCEPT ![0] = << Up("D", 13) >>,
                             ![1] = << Down("C", 12), Up("H", 13) >>,
                             ![2] = << Up("S", 13) >>],
        FoundationsUpTo([S |-> 11, H |-> 11, D |-> 12, C |-> 11]),
        << Down("C", 13), Down("S", 12) >>,
        << Up("H", 12) >>, dm)

\* an end position with empty stock and waste
EndState(dm) ==
    GameState(
        [EmptyTableau EXCEPT ![0] = << Down("S", 13), Up("S", 12) >>,
                             ![1] = << Up("H", 13) >>,
                             ![2] = << Up("C", 13) >>],
        FoundationsUpTo([S |-> 11, H |-> 12, D |-> 13, C |-> 12]),
        << >>, << >>, dm)

\* the late position once the player has drawn the whole stock: the waste
\* cards lie face-up
RecycleState(dm) ==
    GameState(
        [EmptyTableau EXCEPT ![0] = << Up("D", 13) >>,
                             ![1] = << Down("C", 12), Up("H", 13) >>,
                             ![2] = << Up("S", 13) >>],
        FoundationsUpTo([S |-> 11, H |-> 11, D |-> 12, C |-> 11]),
        << >>,
        << Up("C", 13), Up("S", 12), Up("H", 12) >>, dm)

DrawModes == {1, 3}

InputStates ==
    UNION {{DealState(dm), BlockedDealState(dm), LateState(dm), EndState(dm), RecycleState(dm)} :
              dm \in DrawModes}

Engines == {"KS", "AW", "AWjs"}

(***************************************************************************)
(* The search requests: KlondikeSolver.solve / search and                  *)
(* SolitaireAIWorker.findWinningPath / searchWinningPath as a machine on   *)
(* the call stack.  A frame is an active call inside its for loop:         *)
(*   state  its gameState          moves  the list its loop runs over      *)
(*   i      index of the next move  via    the move that led to its state  *)
(***************************************************************************)
NoState == GameState(EmptyTableau, [su \in Suits |-> << >>], << >>, << >>, NoDrawMode)

NoCall == [active |-> FALSE, state |-> NoState, via |-> NoMove]

NoResult == [done |-> FALSE, solvable |-> FALSE, bestMoves |-> << >>, error |-> FALSE]

\* no other request
NoRequest ==
    [present |-> FALSE, gs |-> NoState, maxDepth |-> -1, stack |-> << >>,
     call |-> NoCall, result |-> NoResult, cutOff |-> FALSE]

\* no second line of play
NoTwin == [state |-> NoState, nmoves |-> 0]

(***************************************************************************)
(* OpenAIAgent: the constructor and makeRequest.  Each operation of the    *)
(* agent that calls makeRequest is a process; at stands for the await it   *)
(* is suspended at: "timer" at the rate-limit setTimeout, "fetch" at the   *)
(* await of fetch.  fetchTimes is the history of the clock values at which *)
(* fetch was called.                                                       *)
(***************************************************************************)
rateLimitDelay == 1000

Operations == {"testConnection", "getMoveRecommendation"}

\* Date.now() when the page has loaded: any clock value of today is further
\* than rateLimitDelay from lastRequestTime = 0
StartClock == rateLimitDelay

NewAgent ==
    [isInitialized   |-> FALSE,
     rateLimitDelay  |-> rateLimitDelay,
     lastRequestTime |-> 0,
     now             |-> StartClock,
     at              |-> [op \in Operations |-> "idle"],
     wake            |-> [op \in Operations |-> 0],
     fetchTimes      |-> << >>]

\* fetch(this.baseURL, ...) called by op at the present clock value
CallFetch(a, op) ==
    [a EXCEPT !.at[op] = "fetch", !.fetchTimes = Append(@, a.now)]

\* makeRequest from its entry to its first await
makeRequest(a, op) ==
    LET timeSinceLastRequest == a.now - a.lastRequestTime IN
    IF timeSinceLastRequest < a.rateLimitDelay
    THEN [a EXCEPT !.at[op] = "timer",
                   !.wake[op] = a.now + (a.rateLimitDelay - timeSinceLastRequest)]
    ELSE CallFetch(a, op)

SearchIdle ==
    /\ maxDepth = -1
    /\ stack = << >>
    /\ call = NoCall
    /\ visited = {}
    /\ timedOut = FALSE
    /\ result = NoResult
    /\ cutOff = FALSE
    /\ parked = NoRequest

\*   awaited    the last turn of the loop awaited a recursive call
\*   yieldEvery the loop yields to the event loop after every yieldEvery-th
\*              move whose call has failed (0: never)
Frame(s, moves, via, yieldEvery) ==
    [state |-> s, moves |-> moves, i |-> 1, via |-> via,
     awaited |-> FALSE, yieldEvery |-> yieldEvery]

\* moveSequence of the call about to be entered
CallPath ==
    IF Len(stack) = 0
    THEN << >>
    ELSE [k \in 1 .. Len(stack) - 1 |-> stack[k + 1].via] \o << call.via >>

Searching == call.active \/ Len(stack) > 0

\* the call about to be entered returns failure to its caller; the outermost
\* call returns it to solve / findWinningPath
ReturnFailure ==
    /\ call' = NoCall
    /\ result' = IF Len(stack) = 0 THEN [NoResult EXCEPT !.done = TRUE] ELSE result
    /\ UNCHANGED <<stack, visited>>

\* the call about to be entered returns its moveSequence, which every caller
\* returns at once
ReturnSuccess ==
    /\ call' = NoCall
    /\ stack' = << >>
    /\ result' = [NoResult EXCEPT !.done = TRUE, !.solvable = TRUE, !.bestMoves = CallPath]
    /\ UNCHANGED visited

\* the loop of the top frame goes on to its next move, entering the call `next`
Advance(next) ==
    /\ stack' = [stack EXCEPT ![Len(stack)].i = @ + 1,
                             ![Len(stack)].awaited = next.active]
    /\ call' = next
    /\ UNCHANGED <<visited, result>>

\* the top frame returns failure
PopFailure ==
    /\ stack' = DropLastN(stack, 1)
    /\ call' = NoCall
    /\ result' = IF Len(stack) = 1 THEN [NoResult EXCEPT !.done = TRUE] ELSE result

MaxSearchDepth == 4

\* the cards that lie face-down in `before` and face-up in `after`
CardsFlipped(before, after) ==
    {CardId(AllCards(before)[i]) : i \in {k \in 1 .. Len(AllCards(before)) :
                                            ~AllCards(before)[k].faceUp}}
        \cap {CardId(AllCards(after)[i]) : i \in {k \in 1 .. Len(AllCards(after)) :
                                                   AllCards(after)[k].faceUp}}

TurnedUp(pile, ids) ==
    [i \in 1 .. Len(pile) |->
        IF CardId(pile[i]) \in ids THEN [pile[i] EXCEPT !.faceUp = TRUE] ELSE pile[i]]

WithFaceUp(s, ids) ==
    [s EXCEPT !.tableau = [c \in Cols |-> TurnedUp(s.tableau[c], ids)],
              !.foundations = [su \in Suits |-> TurnedUp(s.foundations[su], ids)],
              !.stock = TurnedUp(s.stock, ids),
              !.waste = TurnedUp(s.waste, ids)]

\* a clone whose piles hold the card objects of its source: a card turned
\* face-up in the clone is turned face-up in the caller's state too
KS_callerAfterApply_sharedCards(caller, before, after) ==
    WithFaceUp(caller, CardsFlipped(before, after))

\* the caller's state object once applyMove has turned `before` into `after`:
\* cloneGameState copies every pile and every card ({ ...card }), and applyMove
\* writes to the clone only
KS_callerAfterApply(caller, before, after) == caller

\* the same for applyMoveToState: cloneGameState builds every card anew
AW_callerAfterApply(caller, before, after) == caller

\* a position two moves from the win, for the search requests
NearWinState(dm) ==
    GameState(
        [EmptyTableau EXCEPT ![0] = << Down("S", 13), Up("S", 12) >>],
        FoundationsUpTo([S |-> 11, H |-> 13, D |-> 13, C |-> 13]),
        << >>, << >>, dm)

\* a position three moves from the win, with a stock card
NearWinStockState(dm) ==
    GameState(
        [EmptyTableau EXCEPT ![3] = << Up("H", 13) >>],
        FoundationsUpTo([S |-> 13, H |-> 11, D |-> 13, C |-> 13]),
        << Down("H", 12) >>, << >>, dm)

\* the won position but for the King of Spades, face-up on column c
OneMoveState(dm, c) ==
    GameState(
        [EmptyTableau EXCEPT ![c] = << Up("S", 13) >>],
        FoundationsUpTo([S |-> 12, H |-> 13, D |-> 13, C |-> 13]),
        << >>, << >>, dm)

OneMoveStates == {OneMoveState(dm, c) : dm \in DrawModes, c \in {0, 3, 6}}

\* all 52 cards on the foundations
WonState(dm) ==
    GameState(EmptyTableau, FoundationsUpTo([S |-> 13, H |-> 13, D |-> 13, C |-> 13]),
              << >>, << >>, dm)

WonStates == {WonState(dm) : dm \in DrawModes}

\* a position without a legal move: the Queen of Spades lies on the face-down
\* Jack of Spades
StuckState(dm) ==
    GameState(
        [EmptyTableau EXCEPT ![2] = << Down("S", 13), Down("S", 11), Up("S", 12) >>],
        FoundationsUpTo([S |-> 10, H |-> 13, D |-> 13, C |-> 13]),
        << >>, << >>, dm)

\* malformed: the King of Spades is missing from the position
MissingCardState(dm) ==
    GameState(
        [EmptyTableau EXCEPT ![0] = << Up("S", 12) >>],
        FoundationsUpTo([S |-> 11, H |-> 13, D |-> 13, C |-> 13]),
        << >>, << >>, dm)

\* malformed: a second King of Spades lies on the tableau
DuplicateCardState(dm) ==
    GameState(
        [EmptyTableau EXCEPT ![0] = << Up("S", 13) >>],
        FoundationsUpTo([S |-> 13, H |-> 13, D |-> 13, C |-> 13]),
        << >>, << >>, dm)

MalformedStates == UNION {{MissingCardState(dm), DuplicateCardState(dm)} : dm \in DrawModes}

SearchInputs ==
    UNION {{NearWinState(dm), NearWinStockState(dm), DealState(dm), StuckState(dm)} :
           dm \in DrawModes}
        \cup OneMoveStates \cup WonStates \cup MalformedStates

\* solve(gameState, maxDepth = 200)
KS_defaultMaxDepth == 200

\* findWinningPath(gameState, maxDepth = 150)
AW_defaultMaxDepth == 150

DefaultMaxDepth(e) == IF e = "KS" THEN KS_defaultMaxDepth ELSE AW_defaultMaxDepth

\* the depth bounds a request may carry: every small bound, and the default
\* bound for the positions at most one move from the win
DepthBounds(e, s) ==
    (0 .. MaxSearchDepth)
        \cup (IF s \in OneMoveStates \cup WonStates THEN {DefaultMaxDepth(e)} ELSE {})

InitSearch ==
    /\ engine \in Engines
    /\ gs \in SearchInputs
    /\ prev = gs
    /\ lastMove = NoMove
    /\ nmoves = 0
    /\ analysis = NoAnalysis
    /\ SearchIdle
    /\ twin = NoTwin
    /\ agent = NewAgent

\* KlondikeSolver.solve(gameState, maxDepth) up to its call of search
KS_Solve ==
    /\ engine = "KS"
    /\ ~Searching
    /\ ~result.done
    /\ \E d \in DepthBounds("KS", gs) : maxDepth' = d
    /\ visited' = {}
    /\ timedOut' = FALSE
    /\ cutOff' = FALSE
    /\ call' = [active |-> TRUE, state |-> gs, via |-> NoMove]
    /\ UNCHANGED <<engine, parked, twin, agent, playVars, stack, result>>

\* the clock passes startTime + maxTime while the search runs
KS_ClockExpires ==
    /\ engine = "KS"
    /\ Searching
    /\ ~timedOut
    /\ timedOut' = TRUE
    /\ UNCHANGED <<engine, parked, twin, agent, playVars, maxDepth, stack, call, visited, result, cutOff>>

\* a time check that never fires
KS_timeLimitExceeded_never(expired) == FALSE

\* Date.now() - startTime > this.maxTime
KS_timeLimitExceeded(expired) == expired

\* a cycle test that never finds the state
KS_isVisited_never(stateHash, visitedStates) == FALSE

\* this.visitedStates.has(stateHash)
KS_isVisited(stateHash, visitedStates) == stateHash \in visitedStates

\* a failing call that leaves its hash in the set
KS_visitedAfterFailure_kept(visitedStates, stateHash) == visitedStates

\* this.visitedStates.delete(stateHash) before the failure return of the loop
KS_visitedAfterFailure(visitedStates, stateHash) == visitedStates \ {stateHash}

\* KlondikeSolver.search from its entry to its for loop
KS_SearchEnter ==
    /\ engine = "KS"
    /\ call.active
    /\ IF KS_timeLimitExceeded(timedOut) \/ Len(stack) >= maxDepth
       THEN ReturnFailure
       ELSE IF KS_isGameWon(call.state)
            THEN ReturnSuccess
            ELSE IF KS_isVisited(KS_hashGameState(call.state), visited)
                 THEN ReturnFailure
                 ELSE /\ visited' = visited \cup {KS_hashGameState(call.state)}
                      /\ stack' = Append(stack,
                            Frame(call.state,
                                  KS_rankMoves(KS_generateAllMoves(call.state), call.state),
                                  call.via, 0))
                      /\ call' = NoCall
                      /\ UNCHANGED result
    /\ cutOff' = (cutOff \/ KS_timeLimitExceeded(timedOut) \/ Len(stack) >= maxDepth)
    /\ UNCHANGED <<engine, parked, twin, agent, playVars, maxDepth, timedOut>>

\* one turn of the for loop of search, or its end
KS_stepLoop(top, applied) ==
    IF top.i <= Len(top.moves)
    THEN /\ Advance(IF applied.null THEN NoCall
                    ELSE [active |-> TRUE, state |-> applied.state, via |-> top.moves[top.i]])
         /\ gs' = KS_callerAfterApply(gs, top.state, applied.state)
    ELSE /\ visited' = KS_visitedAfterFailure(visited, KS_hashGameState(top.state))
         /\ PopFailure
         /\ UNCHANGED gs

KS_SearchLoop ==
    /\ engine = "KS"
    /\ ~call.active
    /\ Len(stack) > 0
    /\ KS_stepLoop(Top(stack),
                   IF Top(stack).i <= Len(Top(stack).moves)
                   THEN KS_applyMove(Top(stack).state, Top(stack).moves[Top(stack).i])
                   ELSE [null |-> TRUE, state |-> NoState])
    /\ UNCHANGED <<engine, parked, twin, agent, prev, lastMove, nmoves, analysis, maxDepth, timedOut, cutOff>>

\* the message of the request has not been handled yet
NotStarted == maxDepth = -1 /\ ~call.active /\ ~result.done

\* findWinningPath(gameState, maxDepth) up to its call of searchWinningPath
FindWinningPath(e) ==
    /\ engine = e
    /\ NotStarted
    /\ \E d \in DepthBounds(e, gs) : maxDepth' = d
    /\ cutOff' = FALSE
    /\ call' = [active |-> TRUE, state |-> gs, via |-> NoMove]
    /\ UNCHANGED <<engine, parked, twin, agent, playVars, stack, visited, timedOut, result>>

AW_FindWinningPath == FindWinningPath("AW")

AWjs_FindWinningPath == FindWinningPath("AWjs")

\* movesToTry of a call of searchWinningPath (current version)
AW_loopMoves(s, depthRemaining) ==
    AW_movesToTry(AW_rankMovesByStrategicValue(AW_generateAllPossibleMoves(s), s),
                  AW_calculateOptimalBranching(depthRemaining, AW_calculateGameProgress(s)))

\* i % (foundationMoves.length > 0 ? 2 : 4) === 0
AW_yieldEvery(moves) ==
    IF \E k \in 1 .. Len(moves) : IsFoundationType(moves[k].type) THEN 2 ELSE 4

\* i % 3 === 0
AWjs_yieldEvery == 3

\* searchWinningPath (current version) from its entry to its for loop
AW_enterWith(s, depthRemaining, gameProgress) ==
    IF AW_isGameWon(s)
    THEN ReturnSuccess
    ELSE IF depthRemaining <= 0
         THEN ReturnFailure
         ELSE /\ stack' = Append(stack,
                    Frame(s, AW_loopMoves(s, depthRemaining), call.via,
                          AW_yieldEvery(AW_generateAllPossibleMoves(s))))
              /\ call' = NoCall
              /\ UNCHANGED <<visited, result>>

AW_SearchEnter ==
    /\ engine = "AW"
    /\ call.active
    /\ AW_enterWith(call.state, maxDepth - Len(stack), AW_calculateGameProgress(call.state))
    /\ cutOff' = (cutOff \/ (~AW_isGameWon(call.state) /\ maxDepth - Len(stack) <= 0))
    /\ UNCHANGED <<engine, parked, twin, agent, playVars, maxDepth, timedOut>>

\* one turn of the for loop of searchWinningPath (current version), or its end
AW_stepLoop(top, move, newState, depthRemaining, gameProgress) ==
    IF top.i <= Len(top.moves)
    THEN IF AW_shouldSkipMove(move, top.state, depthRemaining, gameProgress)
         THEN Advance(NoCall) /\ UNCHANGED gs
         ELSE /\ gs' = AW_callerAfterApply(gs, top.state, newState)
              /\ IF AW_isProgressTooSlow(AW_calculateProgressScore(newState, top.state),
                                         depthRemaining, gameProgress)
                 THEN Advance(NoCall)
                 ELSE Advance([active |-> TRUE, state |-> newState, via |-> move])
    ELSE PopFailure /\ UNCHANGED <<visited, gs>>

\* the move the loop of the top frame is at
CurrentMove(top) == IF top.i <= Len(top.moves) THEN top.moves[top.i] ELSE NoMove

AW_SearchLoop ==
    /\ engine = "AW"
    /\ ~call.active
    /\ Len(stack) > 0
    /\ AW_stepLoop(Top(stack), CurrentMove(Top(stack)),
                   AW_applyMoveToState(Top(stack).state, CurrentMove(Top(stack))),
                   maxDepth - (Len(stack) - 1),
                   AW_calculateGameProgress(Top(stack).state))
    /\ UNCHANGED <<engine, parked, twin, agent, prev, lastMove, nmoves, analysis, maxDepth, timedOut, cutOff>>

\* searchWinningPath of ai-worker.js from its entry to its for loop; an
\* exception of generateAllPossibleMoves leaves every call and is caught by
\* findWinningPath
AWjs_enterWith(s, depthRemaining, generated) ==
    IF AW_isGameWon(s)
    THEN ReturnSuccess
    ELSE IF depthRemaining <= 0
         THEN ReturnFailure
         ELSE IF generated.threw
              THEN /\ stack' = << >>
                   /\ call' = NoCall
                   /\ result' = [NoResult EXCEPT !.done = TRUE, !.error = TRUE]
                   /\ UNCHANGED visited
              ELSE /\ stack' = Append(stack,
                         Frame(s,
                               Take(AWjs_rankMovesByStrategicValue(generated.moves, s),
                                    AWjs_maxBranches(depthRemaining)),
                               call.via, AWjs_yieldEvery))
                   /\ call' = NoCall
                   /\ UNCHANGED <<visited, result>>

AWjs_SearchEnter ==
    /\ engine = "AWjs"
    /\ call.active
    /\ AWjs_enterWith(call.state, maxDepth - Len(stack),
                      AWjs_generateAllPossibleMoves(call.state, 1))
    /\ cutOff' = (cutOff \/ (~AW_isGameWon(call.state) /\ maxDepth - Len(stack) <= 0))
    /\ UNCHANGED <<engine, parked, twin, agent, playVars, maxDepth, timedOut>>

AWjs_stepLoop(top, move, newState, depthRemaining) ==
    IF top.i <= Len(top.moves)
    THEN IF AWjs_skipsBadMove(move, top.state, depthRemaining)
         THEN Advance(NoCall) /\ UNCHANGED gs
         ELSE /\ gs' = AW_callerAfterApply(gs, top.state, newState)
              /\ IF AWjs_skipsSlowMove(AW_calculateProgressScore(newState, top.state),
                                       depthRemaining)
                 THEN Advance(NoCall)
                 ELSE Advance([active |-> TRUE, state |-> newState, via |-> move])
    ELSE PopFailure /\ UNCHANGED <<visited, gs>>

AWjs_SearchLoop ==
    /\ engine = "AWjs"
    /\ ~call.active
    /\ Len(stack) > 0
    /\ AWjs_stepLoop(Top(stack), CurrentMove(Top(stack)),
                     AW_applyMoveToState(Top(stack).state, CurrentMove(Top(stack))),
                     maxDepth - (Len(stack) - 1))
    /\ UNCHANGED <<engine, parked, twin, agent, prev, lastMove, nmoves, analysis, maxDepth, timedOut, cutOff>>

(***************************************************************************)
(* Play: the moves a generator returns for the current state, applied by   *)
(* the same engine's apply function.                                       *)
(***************************************************************************)
MaxMoves == 3

Init ==
    /\ engine \in Engines
    /\ gs \in InputStates
    /\ prev = gs
    /\ lastMove = NoMove
    /\ nmoves = 0
    /\ analysis = NoAnalysis
    /\ SearchIdle
    /\ twin = NoTwin
    /\ agent = NewAgent

\* the move list the engine's generator returns for s (none when it throws)
GeneratedMoves(e, s) ==
    CASE e = "KS" -> KS_generateAllMoves(s)
      [] e = "AW" -> AW_generateAllPossibleMoves(s)
      [] OTHER    -> AWjs_generateAllPossibleMoves(s, 1).moves

Applied(e, s, m) ==
    IF e = "KS" THEN KS_applyMove(s, m).state ELSE AW_applyMoveToState(s, m)

Play(e) ==
    /\ engine = e
    /\ nmoves < MaxMoves
    /\ \E moves \in {GeneratedMoves(e, gs)} :
         \E i \in 1 .. Len(moves) :
             /\ gs' = Applied(e, gs, moves[i])
             /\ lastMove' = moves[i]
    /\ prev' = gs
    /\ nmoves' = nmoves + 1
    /\ analysis' = NoAnalysis
    /\ UNCHANGED <<engine, parked, twin, agent, searchVars>>

\* KlondikeSolver: applyMove of a move of generateAllMoves
KS_Play == Play("KS")

\* SolitaireAIWorker: applyMoveToState of a move of generateAllPossibleMoves
AW_Play == Play("AW")

\* the same in ai-worker.js
AWjs_Play == Play("AWjs")

\* the analyzePosition request on the current state
AW_Analyze ==
    /\ engine = "AW"
    /\ ~analysis.done
    /\ analysis' = AW_analyzePosition(gs)
    /\ gs' = AW_callerAfterApply(gs, gs, AW_cloneGameState(gs))
    /\ UNCHANGED <<engine, parked, twin, agent, prev, lastMove, nmoves, searchVars>>

AWjs_Analyze ==
    /\ engine = "AWjs"
    /\ ~analysis.done
    /\ analysis' = AWjs_analyzePosition(gs)
    /\ gs' = AW_callerAfterApply(gs, gs, AW_cloneGameState(gs))
    /\ UNCHANGED <<engine, parked, twin, agent, prev, lastMove, nmoves, searchVars>>

Next ==
    \/ KS_Play
    \/ AW_Play
    \/ AWjs_Play
    \/ AW_Analyze
    \/ AWjs_Analyze

Spec == Init /\ [][Next]_vars

(***************************************************************************)
(* Play from a fresh deal.                                                 *)
(***************************************************************************)
Deals == UNION {{DealState(dm), BlockedDealState(dm)} : dm \in DrawModes}

InitDeal ==
    /\ Init
    /\ gs \in Deals

SpecDeal == InitDeal /\ [][Next]_vars

(***************************************************************************)
(* Two lines of play of the solver from one first state: both apply moves  *)
(* of generateAllMoves with applyMove, independently of each other.        *)
(***************************************************************************)
MaxTwinMoves == 2

TwinInputs == {DealState(1), EndState(3)}

InitTwin ==
    /\ engine = "KS"
    /\ gs \in TwinInputs
    /\ prev = gs
    /\ lastMove = NoMove
    /\ nmoves = 0
    /\ analysis = NoAnalysis
    /\ SearchIdle
    /\ twin = [state |-> gs, nmoves |-> 0]
    /\ agent = NewAgent

\* the first line of play
KS_PlayFirst ==
    /\ engine = "KS"
    /\ nmoves < MaxTwinMoves
    /\ \E moves \in {KS_generateAllMoves(gs)} :
         \E i \in 1 .. Len(moves) :
             gs' = KS_applyMove(gs, moves[i]).state
    /\ nmoves' = nmoves + 1
    /\ UNCHANGED <<engine, parked, twin, agent, prev, lastMove, analysis, searchVars>>

\* the second line of play
KS_PlayTwin ==
    /\ engine = "KS"
    /\ twin.nmoves < MaxTwinMoves
    /\ \E moves \in {KS_generateAllMoves(twin.state)} :
         \E i \in 1 .. Len(moves) :
             twin' = [state |-> KS_applyMove(twin.state, moves[i]).state,
                      nmoves |-> twin.nmoves + 1]
    /\ UNCHANGED <<engine, parked, agent, playVars, searchVars>>

NextTwin ==
    \/ KS_PlayFirst
    \/ KS_PlayTwin

SpecTwin == InitTwin /\ [][NextTwin]_vars

(***************************************************************************)
(* The operations of the OpenAIAgent interleaved at the awaits of          *)
(* makeRequest.                                                            *)
(***************************************************************************)
MaxClock == 3000

InitAgent ==
    /\ engine = "AW"
    /\ gs = NoState
    /\ prev = NoState
    /\ lastMove = NoMove
    /\ nmoves = 0
    /\ analysis = NoAnalysis
    /\ SearchIdle
    /\ twin = NoTwin
    /\ agent = NewAgent

\* initialize(apiKey): throws on a missing key, otherwise starts
\* testConnection without awaiting it
initialize ==
    /\ agent.at["testConnection"] = "idle"
    /\ \E apiKey \in {"", "key"} :
         agent' = IF apiKey = ""
                  THEN agent
                  ELSE makeRequest([agent EXCEPT !.isInitialized = TRUE],
                                   "testConnection")
    /\ UNCHANGED <<engine, parked, twin, playVars, searchVars>>

\* getMoveRecommendation(): throws before initialize
getMoveRecommendation ==
    /\ agent.at["getMoveRecommendation"] = "idle"
    /\ agent' = IF ~agent.isInitialized
                THEN agent
                ELSE makeRequest(agent, "getMoveRecommendation")
    /\ UNCHANGED <<engine, parked, twin, playVars, searchVars>>

\* the setTimeout of the rate limit has run out: makeRequest goes on to fetch
timerFires ==
    /\ \E op \in Operations :
         /\ agent.at[op] = "timer"
         /\ agent.now >= agent.wake[op]
         /\ agent' = CallFetch(agent, op)
    /\ UNCHANGED <<engine, parked, twin, playVars, searchVars>>

\* the response has arrived: this.lastRequestTime = Date.now()
fetchResolves ==
    /\ \E op \in Operations :
         /\ agent.at[op] = "fetch"
         /\ agent' = [agent EXCEPT !.lastRequestTime = agent.now,
                                   !.at[op] = "idle"]
    /\ UNCHANGED <<engine, parked, twin, playVars, searchVars>>

\* time passes while every operation is suspended
ClockAdvances ==
    /\ agent.now + rateLimitDelay \div 2 <= MaxClock
    /\ agent' = [agent EXCEPT !.now = @ + rateLimitDelay \div 2]
    /\ UNCHANGED <<engine, parked, twin, playVars, searchVars>>

NextAgent ==
    \/ initialize
    \/ getMoveRecommendation
    \/ timerFires
    \/ fetchResolves
    \/ ClockAdvances

SpecAgent == InitAgent /\ [][NextAgent]_vars

NextSearch ==
    \/ KS_Solve
    \/ KS_ClockExpires
    \/ KS_SearchEnter
    \/ KS_SearchLoop
    \/ AW_FindWinningPath
    \/ AW_SearchEnter
    \/ AW_SearchLoop
    \/ AWjs_FindWinningPath
    \/ AWjs_SearchEnter
    \/ AWjs_SearchLoop
    \/ AW_Analyze
    \/ AWjs_Analyze

SpecSearch == InitSearch /\ [][NextSearch]_vars

\* the solver alone, on the positions near the win
SolverInputs ==
    UNION {{NearWinState(dm), NearWinStockState(dm), StuckState(dm)} : dm \in DrawModes}
        \cup OneMoveStates \cup WonStates

InitSolver ==
    /\ engine = "KS"
    /\ gs \in SolverInputs
    /\ prev = gs
    /\ lastMove = NoMove
    /\ nmoves = 0
    /\ analysis = NoAnalysis
    /\ SearchIdle
    /\ twin = NoTwin
    /\ agent = NewAgent

NextSolver ==
    \/ KS_Solve
    \/ KS_ClockExpires
    \/ KS_SearchEnter
    \/ KS_SearchLoop

\* the worker thread runs the handler of a solve message to its end
SpecSolverLive == InitSolver /\ [][NextSolver]_vars /\ WF_vars(NextSolver)

(***************************************************************************)
(* findWinningPath as a function of its arguments: what a request returns  *)
(* when no other request runs.  null is the record with found = FALSE.     *)
(***************************************************************************)
NotFound == [found |-> FALSE, threw |-> FALSE, moves |-> << >>]

RECURSIVE AW_searchWinningPath(_, _, _)
RECURSIVE AW_searchLoop(_, _, _, _, _)
\* if (winningPath) return winningPath; else the next turn of the loop
AW_afterCall(winningPath, s, moveSequence, depthRemaining, movesToTry, i) ==
    IF winningPath.found
    THEN winningPath
    ELSE AW_searchLoop(s, moveSequence, depthRemaining, movesToTry, i + 1)

AW_searchLoop(s, moveSequence, depthRemaining, movesToTry, i) ==
    IF i > Len(movesToTry)
    THEN NotFound
    ELSE IF \/ AW_shouldSkipMove(movesToTry[i], s, depthRemaining, AW_calculateGameProgress(s))
            \/ AW_isProgressTooSlow(
                    AW_calculateProgressScore(AW_applyMoveToState(s, movesToTry[i]), s),
                    depthRemaining, AW_calculateGameProgress(s))
         THEN AW_searchLoop(s, moveSequence, depthRemaining, movesToTry, i + 1)
         ELSE AW_afterCall(
                  AW_searchWinningPath(AW_applyMoveToState(s, movesToTry[i]),
                                       Append(moveSequence, movesToTry[i]),
                                       depthRemaining - 1),
                  s, moveSequence, depthRemaining, movesToTry, i)

AW_searchWinningPath(s, moveSequence, depthRemaining) ==
    IF AW_isGameWon(s)
    THEN [found |-> TRUE, threw |-> FALSE, moves |-> moveSequence]
    ELSE IF depthRemaining <= 0
         THEN NotFound
         ELSE AW_searchLoop(s, moveSequence, depthRemaining,
                            AW_loopMoves(s, depthRemaining), 1)

RECURSIVE AWjs_searchWinningPath(_, _, _)
RECURSIVE AWjs_searchLoop(_, _, _, _, _)
AWjs_afterCall(winningPath, s, moveSequence, depthRemaining, movesToTry, i) ==
    IF winningPath.found \/ winningPath.threw
    THEN winningPath
    ELSE AWjs_searchLoop(s, moveSequence, depthRemaining, movesToTry, i + 1)

AWjs_searchLoop(s, moveSequence, depthRemaining, movesToTry, i) ==
    IF i > Len(movesToTry)
    THEN NotFound
    ELSE IF \/ AWjs_skipsBadMove(movesToTry[i], s, depthRemaining)
            \/ AWjs_skipsSlowMove(
                    AW_calculateProgressScore(AW_applyMoveToState(s, movesToTry[i]), s),
                    depthRemaining)
         THEN AWjs_searchLoop(s, moveSequence, depthRemaining, movesToTry, i + 1)
         ELSE AWjs_afterCall(
                  AWjs_searchWinningPath(AW_applyMoveToState(s, movesToTry[i]),
                                         Append(moveSequence, movesToTry[i]),
                                         depthRemaining - 1),
                  s, moveSequence, depthRemaining, movesToTry, i)

AWjs_searchFrom(s, moveSequence, depthRemaining, generated) ==
    IF generated.threw
    THEN [NotFound EXCEPT !.threw = TRUE]
    ELSE AWjs_searchLoop(s, moveSequence, depthRemaining,
                         Take(AWjs_rankMovesByStrategicValue(generated.moves, s),
                              AWjs_maxBranches(depthRemaining)), 1)

AWjs_searchWinningPath(s, moveSequence, depthRemaining) ==
    IF AW_isGameWon(s)
    THEN [found |-> TRUE, threw |-> FALSE, moves |-> moveSequence]
    ELSE IF depthRemaining <= 0
         THEN NotFound
         ELSE AWjs_searchFrom(s, moveSequence, depthRemaining,
                              AWjs_generateAllPossibleMoves(s, 1))

\* canWin: result !== null, moves: result || []; the catch of an exception
ResultOf(winningPath) ==
    [done |-> TRUE, solvable |-> winningPath.found, bestMoves |-> winningPath.moves,
     error |-> winningPath.threw]

AW_findWinningPath(s, d) == ResultOf(AW_searchWinningPath(s, << >>, d))

AWjs_findWinningPath(s, d) == ResultOf(AWjs_searchWinningPath(s, << >>, d))

(***************************************************************************)
(* Two requests to one worker.  The handler of a findWinningPath message   *)
(* is suspended at await new Promise(resolve => setTimeout(resolve, 0)) in *)
(* the loop of searchWinningPath; the event loop may then run the handler  *)
(* of the other message, or resume the other suspended search.  A solve    *)
(* message is handled without a yield.                                     *)
(***************************************************************************)
WorkerInputs ==
    {NearWinState(1), StuckState(1), OneMoveState(3, 6)}

InitWorker ==
    /\ engine \in Engines
    /\ gs \in WorkerInputs
    /\ prev = gs
    /\ lastMove = NoMove
    /\ nmoves = 0
    /\ analysis = NoAnalysis
    /\ maxDepth = -1
    /\ stack = << >>
    /\ call = NoCall
    /\ visited = {}
    /\ timedOut = FALSE
    /\ result = NoResult
    /\ cutOff = FALSE
    /\ twin = NoTwin
    /\ agent = NewAgent
    /\ \E other \in WorkerInputs : parked = [NoRequest EXCEPT !.present = TRUE, !.gs = other]

\* the running search has reached its await of setTimeout: the recursive call
\* of move i has failed and i is a multiple of yieldEvery
YieldPoint ==
    /\ ~call.active
    /\ Len(stack) > 0
    /\ Top(stack).awaited
    /\ Top(stack).yieldEvery > 0
    /\ (Top(stack).i - 2) % Top(stack).yieldEvery = 0

\* a resumed search with the frames of the search that was running
AW_resumedStack_shared(own, running) == running

\* the frames a suspended search resumes with: moveSequence, movesToTry, i and
\* gameState are parameters and locals of its own calls of searchWinningPath
AW_resumedStack(own, running) == own

\* the event loop turns to the other request
SwitchRequest ==
    /\ parked.present
    /\ ~parked.result.done
    /\ gs' = parked.gs
    /\ prev' = parked.gs
    /\ maxDepth' = parked.maxDepth
    /\ stack' = AW_resumedStack(parked.stack, stack)
    /\ call' = parked.call
    /\ result' = parked.result
    /\ cutOff' = parked.cutOff
    /\ parked' = [present |-> TRUE, gs |-> gs, maxDepth |-> maxDepth, stack |-> stack,
                  call |-> call, result |-> result, cutOff |-> cutOff]
    /\ UNCHANGED <<engine, twin, agent, lastMove, nmoves, analysis>>

\* the running search yields, or its handler has ended
AW_Yield ==
    /\ engine \in {"AW", "AWjs"}
    /\ YieldPoint \/ ~Searching
    /\ SwitchRequest
    /\ UNCHANGED <<visited, timedOut>>

\* the handler of a solve message has ended and the next message gets a new
\* KlondikeSolver
KS_NextMessage ==
    /\ engine = "KS"
    /\ ~Searching
    /\ SwitchRequest
    /\ visited' = {}
    /\ timedOut' = FALSE

NextWorker ==
    \/ KS_Solve
    \/ KS_ClockExpires
    \/ KS_SearchEnter
    \/ KS_SearchLoop
    \/ KS_NextMessage
    \/ AW_FindWinningPath
    \/ AW_SearchEnter
    \/ AW_SearchLoop
    \/ AWjs_FindWinningPath
    \/ AWjs_SearchEnter
    \/ AWjs_SearchLoop
    \/ AW_Yield

SpecWorker == InitWorker /\ [][NextWorker]_vars

(***************************************************************************)
(* Properties of play                                                      *)
(***************************************************************************)
DeckIds == {CardId(FullDeck[i]) : i \in 1 .. DeckSize}

HoldsDeckOnce(cards) ==
    /\ Len(cards) = DeckSize
    /\ {CardId(cards[i]) : i \in 1 .. Len(cards)} = DeckIds

\* the cards of s are exactly the 52-card deck
WellFormed(s) == HoldsDeckOnce(AllCards(s))

\* the outcome of replaying moves in order from s with the engine's apply
\* function; ok is FALSE when applyMove returns null on the way
RECURSIVE Replay(_, _, _)
Replay(e, s, moves) ==
    IF Len(moves) = 0
    THEN [ok |-> TRUE, state |-> s]
    ELSE IF e = "KS" /\ KS_applyMove(s, Head(moves)).null
         THEN [ok |-> FALSE, state |-> s]
         ELSE Replay(e, Applied(e, s, Head(moves)), Tail(moves))

\* every card of the deck lies on the foundations, and nowhere else
AllCardsOnFoundations(s) ==
    /\ HoldsDeckOnce(ConcatAll(FoundationSeq(s)))
    /\ Len(ConcatAll(TableauSeq(s))) = 0
    /\ Len(s.stock) = 0
    /\ Len(s.waste) = 0

ReplayWins(e, s, moves) ==
    \E r \in {Replay(e, s, moves)} : r.ok /\ AllCardsOnFoundations(r.state)

\* C1: search soundness.  For a well-formed input state, whenever solve
\* returns solvable = true, or findWinningPath returns canWin = true, replaying
\* the returned moves in order from the input state with the same engine's
\* apply function ends in a state with all 52 cards on the foundations.
C1_SearchSoundness ==
    (WellFormed(gs) /\ result.done /\ result.solvable) =>
        ReplayWins(engine, gs, result.bestMoves)

\* a search has returned a winning path of at least two moves
C1_Witness ==
    /\ WellFormed(gs)
    /\ result.done
    /\ result.solvable
    /\ Len(result.bestMoves) >= 2

\* C2: deck integrity.  Every state reached by applying generated moves (each
\* engine's generator with its own apply function) from an input state holds
\* each of the 52 cards exactly once across stock, waste, foundations and
\* tableau.
C2_DeckIntegrity == HoldsDeckOnce(AllCards(gs))

\* the case of C2: a recycle of the waste by the AI worker, and a solver move
\* of more than one card, have been applied
C2_Witness ==
    \/ /\ engine = "AW"
       /\ lastMove.type = "draw_stock"
       /\ Len(prev.stock) = 0
       /\ Len(gs.stock) > 0
    \/ /\ engine = "KS"
       /\ lastMove.type = "tableau_to_tableau"
       /\ lastMove.sequenceLength > 1

\* adjacent face-up cards of a column: opposite colours, ranks descending by 1
ColumnOrdered(pile) ==
    \A i \in 1 .. Len(pile) - 1 :
        (pile[i].faceUp /\ pile[i + 1].faceUp) =>
            /\ IsBlack(pile[i].suit) # IsBlack(pile[i + 1].suit)
            /\ pile[i + 1].value = pile[i].value - 1

\* C3: tableau ordering.  In every state the solver reaches by generateAllMoves
\* and applyMove from an ordered state, adjacent face-up cards of each of the 7
\* columns have opposite colours and ranks descending by exactly 1.
C3_TableauOrdered ==
    engine = "KS" => \A c \in Cols : ColumnOrdered(gs.tableau[c])

\* a foundation pile is the run Ace, 2, ..., k of one suit
IsAscendingRun(pile) ==
    \A i \in 1 .. Len(pile) : pile[i].value = i /\ pile[i].suit = pile[1].suit

\* C4: foundation monotonicity.  In every state reached by generated moves,
\* for the solver and for the AI worker, each foundation pile holds cards of a
\* single suit forming the unbroken run Ace, 2, ..., k from bottom to top.
C4_FoundationRuns == \A su \in Suits : IsAscendingRun(gs.foundations[su])

\* the case of C4: a foundation pile has grown by a move onto a non-empty pile
C4_Witness ==
    /\ IsFoundationType(lastMove.type)
    /\ Len(gs.foundations[lastMove.toSuit]) >= 2
    /\ Len(prev.foundations[lastMove.toSuit]) < Len(gs.foundations[lastMove.toSuit])
    /\ engine \in {"KS", "AW"}

\* the (from, to, k) triples of the solver's tableau_to_tableau moves
KS_emittedTriples(s) ==
    LET moves == KS_tableauToTableauMoves(s)
    IN  {<<moves[i].from, moves[i].to, moves[i].sequenceLength>> : i \in 1 .. Len(moves)}

\* the triples the rule allows: the bottom card of the top k cards of the
\* source column fits the target column
RuleTriples(s) ==
    {tr \in Cols \X Cols \X (1 .. King) :
        /\ tr[1] # tr[2]
        /\ tr[3] <= FaceUpSuffixLen(s.tableau[tr[1]])
        /\ KS_canPlaceOnTableau(s.tableau[tr[1]][Len(s.tableau[tr[1]]) - tr[3] + 1],
                                s.tableau[tr[2]])}

\* C5: the tableau_to_tableau moves of generateAllMoves are exactly the
\* triples (from, to, k), to # from, 1 <= k <= face-up suffix of from, whose
\* landing card (the bottom of the top k cards) fits column to.
C5_TableauMovesMatchRule ==
    engine = "KS" => KS_emittedTriples(gs) = RuleTriples(gs)

\* C6: analyzePosition of ai-worker.js returns normally, with a best move
\* whenever a move is legal (a stock draw is legal when stock or waste is
\* non-empty) and with none only when no move is legal.
C6_BestMoveOrNone ==
    (engine = "AWjs" /\ analysis.done) =>
        /\ ~analysis.error
        /\ (analysis.bestMove = NoMove) <=>
              /\ Len(gs.stock) = 0
              /\ Len(gs.waste) = 0
              /\ Len(AW_tableauToFoundationMoves(gs)) = 0
              /\ Len(AW_tableauToTableauMoves(gs)) = 0

\* C7: generateAllMoves of the solver returns a stock draw whenever the stock
\* or the waste is non-empty.
C7_StockDrawAvailable ==
    (engine = "KS" /\ (Len(gs.stock) > 0 \/ Len(gs.waste) > 0)) =>
        \E i \in 1 .. Len(KS_generateAllMoves(gs)) :
            KS_generateAllMoves(gs)[i].type = "stock_to_waste"

\* C8: for a non-empty waste the AI worker's generator returns a
\* waste-to-tableau move for every column the waste's top card fits, and
\* applyMoveToState pops the waste and pushes the card on that column.
C8_WasteToTableauGenerated ==
    (engine \in {"AW", "AWjs"} /\ Len(gs.waste) > 0) =>
        \A c \in Cols :
            AW_canPlaceOnTableau(Top(gs.waste), gs.tableau[c]) =>
                /\ \E i \in 1 .. Len(GeneratedMoves(engine, gs)) :
                      /\ GeneratedMoves(engine, gs)[i].type = "waste_to_tableau"
                      /\ GeneratedMoves(engine, gs)[i].to = c
                /\ LET after == AW_applyMoveToState(gs,
                                    Move("waste_to_tableau", -1, c, "none", Top(gs.waste), 0, 0))
                   IN  /\ after.waste = DropLastN(gs.waste, 1)
                       /\ after.tableau[c] = Append(gs.tableau[c], Top(gs.waste))

\* C9: every foundation move of the AI worker's generator targets the pile
\* keyed by the moved card's suit, and every card on a foundation lies in the
\* pile keyed by its own suit.
C9_FoundationMovesToOwnSuit ==
    engine \in {"AW", "AWjs"} =>
        /\ \A i \in 1 .. Len(GeneratedMoves(engine, gs)) :
              IsFoundationType(GeneratedMoves(engine, gs)[i].type) =>
                  GeneratedMoves(engine, gs)[i].toSuit = GeneratedMoves(engine, gs)[i].card.suit
        /\ \A su \in Suits : \A i \in 1 .. Len(gs.foundations[su]) :
              gs.foundations[su][i].suit = su

\* C10: a stock draw of the solver on a state with non-empty stock and
\* drawMode d in {1, 3} moves exactly min(d, |stock|) cards from the stock to
\* the waste, and the resulting state still carries drawMode d.
C10_StockDrawAmount ==
    (/\ engine = "KS"
     /\ lastMove.type = "stock_to_waste"
     /\ prev.drawMode \in DrawModes
     /\ Len(prev.stock) > 0) =>
        LET n == Min(prev.drawMode, Len(prev.stock))
        IN  /\ Len(gs.stock) = Len(prev.stock) - n
            /\ Len(gs.waste) = Len(prev.waste) + n
            /\ gs.drawMode = prev.drawMode

\* C11: a draw_stock move of the AI worker applied to a state with an empty
\* stock and a waste of N face-up cards yields an empty waste and a stock that
\* holds the same N cards in reversed order, each of them face-down.
C11_RecycleFaceDown ==
    (/\ engine \in {"AW", "AWjs"}
     /\ lastMove.type = "draw_stock"
     /\ Len(prev.stock) = 0
     /\ Len(prev.waste) > 0
     /\ \A i \in 1 .. Len(prev.waste) : prev.waste[i].faceUp) =>
        /\ Len(gs.waste) = 0
        /\ Len(gs.stock) = Len(prev.waste)
        /\ \A i \in 1 .. Len(gs.stock) :
              /\ CardId(gs.stock[i]) = CardId(prev.waste[Len(prev.waste) + 1 - i])
              /\ ~gs.stock[i].faceUp

\* the moves of the engine's generator that put the King of Spades on an
\* empty column
KingToEmptyMoves(e, s) ==
    {i \in 1 .. Len(GeneratedMoves(e, s)) :
        /\ GeneratedMoves(e, s)[i].type = "tableau_to_tableau"
        /\ GeneratedMoves(e, s)[i].card = Up("S", King)}

\* C12: one move from winning.  For the won position but for the King of
\* Spades face-up on a tableau column, solve and findWinningPath with their
\* default depth bounds, when the time budget has not run out, report solvable
\* with exactly one move, the tableau_to_foundation move of the King of Spades,
\* although the generator also returns King-to-empty-column moves.
C12_OneMoveFromWin ==
    (/\ result.done
     /\ gs \in OneMoveStates
     /\ maxDepth = DefaultMaxDepth(engine)
     /\ ~timedOut) =>
        /\ result.solvable
        /\ Len(result.bestMoves) = 1
        /\ result.bestMoves[1].type = "tableau_to_foundation"
        /\ result.bestMoves[1].card = Up("S", King)
        /\ gs.tableau[result.bestMoves[1].from] = << Up("S", King) >>
        /\ KingToEmptyMoves(engine, gs) # {}

\* a request with the default depth bound on such a position has returned
C12_Witness ==
    /\ result.done
    /\ gs \in OneMoveStates
    /\ maxDepth = DefaultMaxDepth(engine)
    /\ ~timedOut
    /\ result.solvable

\* C13: trivial win.  For a position with all 52 cards on the foundations and
\* every depth bound of at least 1, solve returns solvable with an empty move
\* list (minMoves 0) and findWinningPath returns canWin with moveCount 0.
C13_TrivialWin ==
    (/\ result.done
     /\ gs \in WonStates
     /\ maxDepth >= 1
     /\ ~timedOut) =>
        /\ result.solvable
        /\ ~result.error
        /\ Len(result.bestMoves) = 0

\* a request on a won position has returned
C13_Witness ==
    /\ result.done
    /\ gs \in WonStates
    /\ maxDepth >= 1
    /\ result.solvable

\* the hashes of the states under expansion on the current recursion path
PathHashes == {KS_hashGameState(stack[k].state) : k \in 1 .. Len(stack)}

NoStateTwiceOnPath ==
    engine = "KS" =>
        \A j, k \in 1 .. Len(stack) :
            KS_hashGameState(stack[j].state) = KS_hashGameState(stack[k].state) => j = k

\* a call of search whose state has the hash of a state on the path returns
\* without becoming a frame
RevisitNotExpanded ==
    (/\ engine = "KS"
     /\ call.active
     /\ KS_hashGameState(call.state) \in PathHashes) =>
        (stack' = stack /\ visited' = visited)

\* C14: cycle avoidance.  In the search of the solver a state whose hash is
\* the hash of a state on the current recursion path is never expanded, no
\* two states on one path have the same hash, and every call of solve
\* returns.
C14_CycleAvoidance ==
    /\ []NoStateTwiceOnPath
    /\ [][RevisitNotExpanded]_vars
    /\ ((engine = "KS" /\ call.active) ~> result.done)

\* search is entered within the bounds with the hash of a state on the path
C14_Witness ==
    /\ engine = "KS"
    /\ call.active
    /\ ~timedOut
    /\ Len(stack) < maxDepth
    /\ ~KS_isGameWon(call.state)
    /\ KS_hashGameState(call.state) \in PathHashes

NoExpansionAfterTimeout ==
    (engine = "KS" /\ timedOut) =>
        (/\ Len(stack') <= Len(stack)
         /\ visited' \subseteq visited
         /\ (result'.done => ~result'.solvable))

\* C16: the time budget stops the search.  Once the time since solve started
\* exceeds maxTime, every later call of search returns failure before it
\* generates a move, no solution is reported from then on, and solve returns
\* solvable = false.
C16_TimeBudgetStopsSearch ==
    /\ [][NoExpansionAfterTimeout]_vars
    /\ []((engine = "KS" /\ timedOut /\ result.done) => ~result.solvable)
    /\ ((engine = "KS" /\ timedOut) ~> (result.done /\ ~result.solvable))

\* solve has returned from a search the clock cut off, on a position one move
\* from the win
C16_Witness ==
    /\ engine = "KS"
    /\ timedOut
    /\ result.done
    /\ gs \in OneMoveStates
    /\ maxDepth = KS_defaultMaxDepth

\* the value solve and findWinningPath return when every candidate move of
\* every expanded state has failed
ExhaustedResult == [NoResult EXCEPT !.done = TRUE]

\* C17: budget exhaustion is distinguishable.  A search that was cut off by
\* its time or depth budget does not return the value that a search returns
\* which exhausted every candidate move without reaching a win.
C17_BudgetExhaustionDistinguishable ==
    (result.done /\ cutOff) => result # ExhaustedResult

\* C18: malformed input is rejected.  A request whose state does not hold
\* exactly the 52-card deck is answered with an explicit error result, not
\* solvable, and is never searched: no call of the search expands the state.
C18_MalformedInputRejected ==
    (~WellFormed(gs) /\ maxDepth # -1) =>
        /\ Len(stack) = 0
        /\ result.done => (result.error /\ ~result.solvable)

\* the result of a request that runs alone
AloneResult(e, s, d) == IF e = "AW" THEN AW_findWinningPath(s, d) ELSE AWjs_findWinningPath(s, d)

C20_WinProbabilityMonotonic ==
    /\ (engine # "KS" /\ nmoves > 0 /\ IsFoundationType(lastMove.type)) =>
           /\ AW_calculateWinProbability(gs) >= AW_calculateWinProbability(prev)
           /\ AW_calculateWinProbability(gs) \in 0 .. 100 * WinProbabilityScale
           /\ AW_calculateWinProbability(prev) \in 0 .. 100 * WinProbabilityScale
    /\ analysis.winProbability \in 0 .. 100 * WinProbabilityScale

\* a tableau_to_foundation move has turned a hidden card face-up and the
\* analysis of the new state reports the higher probability
C20_Witness ==
    /\ engine = "AW"
    /\ lastMove.type = "tableau_to_foundation"
    /\ HiddenCards(gs) < HiddenCards(prev)
    /\ analysis.done
    /\ analysis.winProbability > AW_calculateWinProbability(prev)

\* C21: the visited set is a current-path set.  As long as the search of the
\* solver has not succeeded, visitedStates holds exactly the hashes of the
\* calls that are inside their loop: a call that returns failure (time, depth,
\* cycle, moves exhausted) leaves the set as it was when the call was entered,
\* and the set is empty when solve returns solvable = false.
C21_VisitedIsCurrentPath ==
    (engine = "KS" /\ (Searching \/ result.done) /\ ~result.solvable) =>
        visited = PathHashes

\* solve has returned solvable = false after a search that went through its
\* loops down to the depth bound, and the visited set is empty
C21_Witness ==
    /\ engine = "KS"
    /\ result.done
    /\ ~result.solvable
    /\ ~timedOut
    /\ maxDepth >= 2
    /\ cutOff
    /\ visited = {}

\* the piles of a state: tableau cards with orientation, each foundation,
\* waste and stock with content and order
Piles(s) == <<s.tableau, s.foundations, s.waste, s.stock>>

\* C22: the state hash has no false positives.  Two states reached from the
\* same well-formed first state by moves of generateAllMoves applied with
\* applyMove have the same hash only if they are equal in every pile.
C22_HashNoFalsePositives ==
    (engine = "KS" /\ twin # NoTwin /\ KS_hashGameState(gs) = KS_hashGameState(twin.state)) =>
        Piles(gs) = Piles(twin.state)

\* two lines of play of at least two moves each have met in a state that is
\* not the first state
C22_Witness ==
    /\ engine = "KS"
    /\ twin # NoTwin
    /\ nmoves >= 2
    /\ twin.nmoves >= 2
    /\ KS_hashGameState(gs) = KS_hashGameState(twin.state)
    /\ KS_hashGameState(gs) # KS_hashGameState(prev)

\* the foundation moves the generator of the current worker returns for s
AW_foundationMoves(s) ==
    SelectSeq(AW_generateAllPossibleMoves(s), LAMBDA m : IsFoundationType(m.type))

\* every foundation move generated for s is a candidate of the loop of
\* searchWinningPath(s, _, depthRemaining)
FoundationMovesKept(s, depthRemaining) ==
    \A k \in 1 .. Len(AW_foundationMoves(s)) :
        \E j \in 1 .. Len(AW_loopMoves(s, depthRemaining)) :
            AW_loopMoves(s, depthRemaining)[j] = AW_foundationMoves(s)[k]

\* C23: foundation moves are never pruned by the branching cap.  In every
\* state, with the default depth remaining as with a small one, each
\* waste_to_foundation and tableau_to_foundation move of the generator is in
\* movesToTry of searchWinningPath, whatever calculateOptimalBranching returns.
C23_FoundationMovesNeverPruned ==
    (engine = "AW" /\ ~AW_isGameWon(gs)) =>
        \A depthRemaining \in {1, AW_defaultMaxDepth} : FoundationMovesKept(gs, depthRemaining)

\* no move generated for s is a foundation move or turns a hidden card up
NothingBetterThanDraw(s) ==
    \A k \in 1 .. Len(AW_generateAllPossibleMoves(s)) :
        /\ ~IsFoundationType(AW_generateAllPossibleMoves(s)[k].type)
        /\ ~AW_revealsHiddenCard(AW_generateAllPossibleMoves(s)[k], s)

\* the loop of searchWinningPath(s, _, depthRemaining) reaches its recursive
\* call with a draw_stock move
DrawExplored(s, depthRemaining) ==
    \E j \in 1 .. Len(AW_loopMoves(s, depthRemaining)) :
        /\ AW_loopMoves(s, depthRemaining)[j].type = "draw_stock"
        /\ ~AW_shouldSkipMove(AW_loopMoves(s, depthRemaining)[j], s, depthRemaining,
                              AW_calculateGameProgress(s))
        /\ ~AW_isProgressTooSlow(
               AW_calculateProgressScore(
                   AW_applyMoveToState(s, AW_loopMoves(s, depthRemaining)[j]), s),
               depthRemaining, AW_calculateGameProgress(s))

\* C24: the stock draw is explored when nothing better exists.  In a state
\* that is not won, with depth remaining, where a draw_stock move is generated
\* and no generated move is a foundation move or reveals a hidden card,
\* searchWinningPath applies the draw and recurses into its result, at every
\* level of game progress.
C24_StockDrawExplored ==
    (/\ engine = "AW"
     /\ ~AW_isGameWon(gs)
     /\ Len(AW_drawStockMoves(gs)) > 0
     /\ NothingBetterThanDraw(gs)) =>
        \A depthRemaining \in {1, AW_defaultMaxDepth} : DrawExplored(gs, depthRemaining)

\* score of moves[i] with the engine's scoring function
MoveScore(e, moves, i, s) ==
    CASE e = "KS" -> KS_getMoveScore(moves[i], s)
      [] e = "AW" -> AW_strategicValue(moves[i], moves, s)
      [] OTHER    -> AWjs_strategicValue(moves[i], moves, s)

\* the engine's ranked output for the move list moves
RankedMoves(e, moves, s) ==
    CASE e = "KS" -> KS_rankMoves(moves, s)
      [] e = "AW" -> AW_rankMovesByStrategicValue(moves, s)
      [] OTHER    -> AWjs_rankMovesByStrategicValue(moves, s)

\* the scores of the moves of the list, in the order of the list
MoveScores(e, moves, s) == [i \in 1 .. Len(moves) |-> MoveScore(e, moves, i, s)]

FoundationScoresHigher(moves, scores) ==
    \A i, j \in 1 .. Len(moves) :
        (IsFoundationType(moves[i].type) /\ ~IsFoundationType(moves[j].type)) =>
            scores[i] > scores[j]

FoundationPlacedFirst(ranked) ==
    \A a, b \in 1 .. Len(ranked) :
        (IsFoundationType(ranked[b].type) /\ ~IsFoundationType(ranked[a].type)) => b < a

\* C25: foundation moves outrank every other kind.  For every state and the
\* move list its engine generates there, every foundation move has a strictly
\* higher score than every move of another kind and stands before it in the
\* ranked output (rankMoves, rankMovesByStrategicValue of both workers).
C25_FoundationMovesOutrank ==
    \A moves \in {GeneratedMoves(engine, gs)} :
        /\ \A scores \in {MoveScores(engine, moves, gs)} :
               FoundationScoresHigher(moves, scores)
        /\ \A ranked \in {RankedMoves(engine, moves, gs)} :
               FoundationPlacedFirst(ranked)

\* the list the worker generates holds a foundation move and a move of
\* another kind that turns a hidden card up
C25_Witness ==
    /\ engine = "AW"
    /\ nmoves >= 1
    /\ \E i, j \in 1 .. Len(GeneratedMoves(engine, gs)) :
          /\ IsFoundationType(GeneratedMoves(engine, gs)[i].type)
          /\ GeneratedMoves(engine, gs)[j].type = "tableau_to_tableau"
          /\ AW_revealsHiddenCard(GeneratedMoves(engine, gs)[j], gs)

AcesScoreHighest(moves, scores) ==
    \A i, j \in 1 .. Len(moves) :
        (/\ IsFoundationType(moves[i].type)
         /\ IsFoundationType(moves[j].type)
         /\ moves[i].card.value = 1
         /\ moves[j].card.value >= 2) =>
            scores[i] >= scores[j]

\* C26: Aces score highest among foundation moves.  For every state and
\* every two foundation moves of the list generated there, one moving an Ace
\* and one moving a card of rank 2 or more, the score of the Ace move is at
\* least the score of the other move (getMoveScore of the solver,
\* rankMovesByStrategicValue of the current worker).
C26_AcesScoreHighest ==
    engine \in {"KS", "AW"} =>
        \A moves \in {GeneratedMoves(engine, gs)} :
            \A scores \in {MoveScores(engine, moves, gs)} :
                AcesScoreHighest(moves, scores)

\* applying move to s with applyMove turns a face-down card of the source
\* column face-up
KS_turnsCardUp(move, s) ==
    \E k \in 1 .. Len(s.tableau[move.from]) :
        /\ ~s.tableau[move.from][k].faceUp
        /\ k <= Len(KS_applyMove(s, move).state.tableau[move.from])
        /\ KS_applyMove(s, move).state.tableau[move.from][k].faceUp

\* C27: the reveal bonus matches actual reveals.  For every state and every
\* tableau_to_foundation or tableau_to_tableau move of generateAllMoves, of
\* any sequenceLength, getMoveScore adds the reveal bonus if and only if
\* applyMove of the move turns a face-down card of the source column face-up.
C27_RevealBonusMatchesReveal ==
    engine = "KS" =>
        \A moves \in {KS_generateAllMoves(gs)} :
            \A i \in 1 .. Len(moves) :
                (moves[i].type = "tableau_to_foundation" \/ moves[i].type = "tableau_to_tableau")
                    => (KS_addsRevealBonus(moves[i], gs) <=> KS_turnsCardUp(moves[i], gs))

\* the moves applyMove is asked to apply in s: the moves of generateAllMoves,
\* a stock draw, and the moves of one or two cards between any two columns
MovesOffered(s) ==
    {KS_generateAllMoves(s)[i] : i \in 1 .. Len(KS_generateAllMoves(s))}
        \cup {Move("stock_to_waste", -1, -1, "none", NoCard, 0, 0)}
        \cup {Move("tableau_to_tableau", f, to, "none", NoCard, sl, 0) :
                 f \in Cols, to \in Cols, sl \in 1 .. 2}

\* the move is valid in s: its source pile holds the cards it moves, and the
\* lowest card it moves may be placed on the target by the placement rules
ValidMove(s, move) ==
    CASE move.type = "stock_to_waste" -> Len(s.stock) > 0
      [] move.type = "waste_to_foundation" ->
            /\ Len(s.waste) > 0
            /\ move.toSuit = Top(s.waste).suit
            /\ KS_canPlaceOnFoundation(Top(s.waste), s.foundations)
      [] move.type = "waste_to_tableau" ->
            /\ Len(s.waste) > 0
            /\ KS_canPlaceOnTableau(Top(s.waste), s.tableau[move.to])
      [] move.type = "tableau_to_foundation" ->
            /\ Len(s.tableau[move.from]) > 0
            /\ move.toSuit = Top(s.tableau[move.from]).suit
            /\ KS_canPlaceOnFoundation(Top(s.tableau[move.from]), s.foundations)
      [] move.type = "tableau_to_tableau" ->
            /\ move.sequenceLength >= 1
            /\ Len(s.tableau[move.from]) >= move.sequenceLength
            /\ move.from # move.to
            /\ KS_canPlaceOnTableau(
                   s.tableau[move.from][Len(s.tableau[move.from]) - move.sequenceLength + 1],
                   s.tableau[move.to])
      [] OTHER -> FALSE

\* C28: invalid moves give an explicit failure.  applyMove returns null for
\* every move that is invalid in the given state (empty source pile,
\* sequenceLength above the length of the source column, placement rule not
\* met on the target) and returns a state only for valid moves.
C28_InvalidMovesRejected ==
    engine = "KS" =>
        \A move \in MovesOffered(gs) :
            ~ValidMove(gs, move) => KS_applyMove(gs, move).null

\* the column is a face-down prefix followed by a face-up suffix
PrefixThenSuffix(pile) ==
    \A j, k \in 1 .. Len(pile) : (j < k /\ pile[j].faceUp) => pile[k].faceUp

\* the face-down cards of the column after the move lay face-down at the same
\* place before it, and a card that the move turned face-up is the new top
FaceDownKept(before, after) ==
    /\ \A k \in 1 .. Len(after) :
          ~after[k].faceUp =>
              /\ k <= Len(before)
              /\ CardId(before[k]) = CardId(after[k])
              /\ ~before[k].faceUp
    /\ \A k \in 1 .. Len(before) :
          ~before[k].faceUp =>
              /\ k <= Len(after)
              /\ CardId(after[k]) = CardId(before[k])
              /\ after[k].faceUp => k = Len(after)

\* C29: face-down prefix and auto-reveal.  In every state reached by
\* generated moves from a deal (solver and current worker), each column is a
\* face-down prefix followed by a face-up suffix, the top card of every
\* non-empty column is face-up, no face-down card has changed its column or
\* position, and a card turns face-up only when it becomes the top card.
C29_FaceDownPrefixKept ==
    engine \in {"KS", "AW"} =>
        \A c \in Cols :
            /\ PrefixThenSuffix(gs.tableau[c])
            /\ Len(gs.tableau[c]) > 0 => Top(gs.tableau[c]).faceUp
            /\ FaceDownKept(prev.tableau[c], gs.tableau[c])

\* C30: API rate limit under concurrency.  Any two calls of fetch issued by
\* makeRequest are at least rateLimitDelay apart, also when testConnection
\* (started by initialize) and getMoveRecommendation interleave at the awaits
\* of makeRequest.
C30_FetchesSpacedApart ==
    \A i, j \in 1 .. Len(agent.fetchTimes) :
        i < j => agent.fetchTimes[j] - agent.fetchTimes[i] >= agent.rateLimitDelay

====
